---- MODULE Spec2Model ----
(***************************************************************************)
(* A model of the AiMo note agent (aimo-app-amico):                        *)
(*   - ChatAction::try_from_reply (src/src/agent.rs), the parser that      *)
(*     turns a raw model reply into Reply | InsertNode | ModifyNode | Err; *)
(*   - Note::get_brief (src/src/note.rs), the projection of a note's tree  *)
(*     into a flat list of brief nodes;                                    *)
(*   - the derived Serialize / Deserialize of Note (src/src/note.rs).      *)
(*                                                                         *)
(* A Rust String is a sequence of characters.  A character is a TLA+       *)
(* string: the one-character string itself, or, for a character a TLA+     *)
(* string cannot hold (the backtick, a non-ASCII character), the name of   *)
(* its code point ("U+0060", "U+2022").                                    *)
(* Option<T> is a sequence of length 0 (None) or 1 (Some).                 *)
(***************************************************************************)
EXTENDS Integers, Sequences, FiniteSets, TLC

VARIABLES
    ppc,      \* try_from_reply: "call" before the call, "done" after it
    reply,    \* try_from_reply: the argument reply: String
    inner,    \* the text r the argument was built from (r itself when unwrapped)
    wrap,     \* how reply was built from inner: fences, tag, whitespace
    action,   \* try_from_reply: the returned anyhow::Result<ChatAction>
    bpc,      \* get_brief: "loop" while iterating the root's children, "done" after
    note,     \* get_brief: self.lexical_state.root.children
    index,    \* get_brief: the number of children already enumerated
    briefs,   \* get_brief: the Vec<BriefNode> built so far
    spc,      \* serde: "read", "write", "reread", "done": the next step of a round trip
    payload,  \* serde: the JSON payload given to serde_json::from_str::<Note>
    doc,      \* serde: the Result<Note> of from_str, or a Note a caller built
    written,  \* serde: the payload serde_json::to_string(&note) wrote
    reparsed, \* serde: the Result<Note> of from_str on the written payload
    qpc,      \* get_system_prompt: "call" before the call, "done" after
    ctx,      \* get_system_prompt: the argument ctx: &ChatContext
    prompt,   \* get_system_prompt: the returned anyhow::Result<String>
    handler,  \* chat: the ChatHandler in use, of "agent.rs" or of "lib.rs"
    hpc,      \* chat: the caller's position: "idle", "send", "lock", "recv",
              \* "dropped"; "send_wait", "lock_wait", "recv_wait": its future
              \* is pending at that await
    calls,    \* chat: the number of chat calls started
    sent,     \* chat: the Chat the running call built
    got,      \* chat: what recv() gave to the last call that returned
    result,   \* chat: what the last call returned
    chat_ch,  \* the messages in the chat channel (capacity 1)
    reply_ch, \* the messages in the reply channel (capacity 1)
    tpc,      \* the task of ChatSource::spawn: "recv", "event", "send", "ended", "dropped"
    held,     \* the task: the chat or the reply in its hands
    runtime,  \* AgentWasmRuntime: its fields agent and running
    launches, \* the number of times agent.run() was spawned
    cpc,      \* send_chat: the position of each caller
    owner,    \* the caller that holds the lock of chat_handler, 0 for none
    ret,      \* send_chat: what the last call of each caller returned
    seen      \* is_running: Some(the value its last call returned)

vars ==
    <<ppc, reply, inner, wrap, action, bpc, note, index, briefs,
      spc, payload, doc, written, reparsed, qpc, ctx, prompt,
      handler, hpc, calls, sent, got, result, chat_ch, reply_ch, tpc, held,
      runtime, launches, cpc, owner, ret, seen>>
parseVars == <<ppc, reply, inner, wrap, action>>
briefVars == <<bpc, note, index, briefs>>
serdeVars == <<spc, payload, doc, written, reparsed>>
promptVars == <<qpc, ctx, prompt>>
chatVars ==
    <<handler, hpc, calls, sent, got, result, chat_ch, reply_ch, tpc, held>>
runtimeVars == <<runtime, launches, cpc, owner, ret, seen>>

(***************************************************************************)
(* Strings                                                                 *)
(***************************************************************************)

\* the characters with the Unicode property White_Space
WhiteSpace ==
    {"\t", "\n", "U+000B", "\f", "\r", " ", "U+0085", "U+00A0", "U+1680",
     "U+2000", "U+2001", "U+2002", "U+2003", "U+2004", "U+2005", "U+2006",
     "U+2007", "U+2008", "U+2009", "U+200A", "U+2028", "U+2029", "U+202F",
     "U+205F", "U+3000"}

\* char::is_whitespace, which str::trim uses
IsWhitespace(c) == c \in WhiteSpace

StartsWith(s, p) == Len(s) >= Len(p) /\ SubSeq(s, 1, Len(p)) = p

EndsWith(s, p) == Len(s) >= Len(p) /\ SubSeq(s, Len(s) - Len(p) + 1, Len(s)) = p

RECURSIVE TrimStart(_)
TrimStart(s) ==
    IF s # <<>> /\ IsWhitespace(Head(s)) THEN TrimStart(Tail(s)) ELSE s

RECURSIVE TrimEnd(_)
TrimEnd(s) ==
    IF s # <<>> /\ IsWhitespace(s[Len(s)])
    THEN TrimEnd(SubSeq(s, 1, Len(s) - 1))
    ELSE s

\* str::trim
Trim(s) == TrimEnd(TrimStart(s))

\* str::trim_start_matches(pat): the prefix pat removed as often as it occurs
RECURSIVE TrimStartMatches(_, _)
TrimStartMatches(s, pat) ==
    IF pat # <<>> /\ StartsWith(s, pat)
    THEN TrimStartMatches(SubSeq(s, Len(pat) + 1, Len(s)), pat)
    ELSE s

\* str::trim_end_matches(pat): the suffix pat removed as often as it occurs
RECURSIVE TrimEndMatches(_, _)
TrimEndMatches(s, pat) ==
    IF pat # <<>> /\ EndsWith(s, pat)
    THEN TrimEndMatches(SubSeq(s, 1, Len(s) - Len(pat)), pat)
    ELSE s

Backtick == "U+0060"

\* the pattern of agent.rs 184: three backticks
CodeFrame == <<Backtick, Backtick, Backtick>>

\* agent.rs 180-187: trim, remove the code frame, trim again
CleanReply(r) ==
    Trim(TrimEndMatches(TrimStartMatches(Trim(r), CodeFrame), CodeFrame))

(***************************************************************************)
(* serde_json::Value and serde_json::from_str                              *)
(*                                                                         *)
(* The parser is character level and follows serde_json's Deserializer.    *)
(* Outside the model: \u escapes, integers of more than 9 digits (TLC's     *)
(* integers are 32 bits wide), significands of more than 19 digits and     *)
(* numbers within a few units in the 16th digit of the largest f64; the    *)
(* code ParseNotModelled marks them, and ParserWithinModel shows that no   *)
(* generated reply reaches them.                                           *)
(***************************************************************************)

JNull == [k |-> "null"]
JBool(b) == [k |-> "bool", b |-> b]
JPosInt(n) == [k |-> "num", n |-> [kind |-> "PosInt", v |-> n]]
JNegInt(n) == [k |-> "num", n |-> [kind |-> "NegInt", v |-> n]]
\* an f64 is kept as the text that was parsed into it
JFloat(lex) == [k |-> "num", n |-> [kind |-> "Float", lex |-> lex]]
JStr(s) == [k |-> "str", s |-> s]
JArr(items) == [k |-> "arr", a |-> items]
\* serde_json::Map: a function from keys to values
JObj(m) == [k |-> "obj", m |-> m]
EmptyMap == <<>>

Ok(v, i) == [ok |-> TRUE, v |-> v, i |-> i]
Fail(code) == [ok |-> FALSE, err |-> code]

Digits == {"0", "1", "2", "3", "4", "5", "6", "7", "8", "9"}

DigitValue(c) ==
    CASE c = "0" -> 0 [] c = "1" -> 1 [] c = "2" -> 2 [] c = "3" -> 3
      [] c = "4" -> 4 [] c = "5" -> 5 [] c = "6" -> 6 [] c = "7" -> 7
      [] c = "8" -> 8 [] c = "9" -> 9

\* the character at i, or "EOF" past the end
At(s, i) == IF i >= 1 /\ i <= Len(s) THEN s[i] ELSE "EOF"

\* Deserializer::parse_whitespace: JSON whitespace is space, \n, \t, \r only
RECURSIVE SkipWs(_, _)
SkipWs(s, i) ==
    IF At(s, i) \in {" ", "\n", "\t", "\r"} THEN SkipWs(s, i + 1) ELSE i

RECURSIVE SkipDigits(_, _)
SkipDigits(s, i) == IF At(s, i) \in Digits THEN SkipDigits(s, i + 1) ELSE i

\* the value of the digits s[i .. j-1]
RECURSIVE DigitsValue(_, _, _)
DigitsValue(s, i, j) ==
    IF j <= i THEN 0 ELSE DigitsValue(s, i, j - 1) * 10 + DigitValue(s[j - 1])

\* the digits d without their leading zeros
RECURSIVE StripZeros(_)
StripZeros(d) == IF d # <<>> /\ Head(d) = "0" THEN StripZeros(Tail(d)) ELSE d

\* the first n digits of d, zeros added where d is shorter
Pad(d, n) == [i \in 1..n |-> IF i <= Len(d) THEN d[i] ELSE "0"]

\* two digit sequences of the same length: a stands for less than b
RECURSIVE DigitsLess(_, _)
DigitsLess(a, b) ==
    IF a = <<>> THEN FALSE
    ELSE IF Head(a) # Head(b) THEN DigitValue(Head(a)) < DigitValue(Head(b))
    ELSE DigitsLess(Tail(a), Tail(b))

\* the last entry of serde_json's table POW10 is 1e308
MaxPow10 == 308

\* f64::MAX is 1.7976931348623157e308: a product below the first bound
\* is finite, one from the second bound on is infinite
F64MaxBelow ==
    <<"1", "7", "9", "7", "6", "9", "3", "1", "3", "4", "8", "6", "2", "3", "1", "5">>
F64MaxAbove ==
    <<"1", "7", "9", "7", "6", "9", "3", "1", "3", "4", "8", "6", "2", "3", "1", "7">>

\* Deserializer::f64_from_parts: whether significand * 10^exponent is a
\* finite f64; significand is the sequence of its digits
f64_from_parts(significand, exponent) ==
    LET sig == StripZeros(significand)
        top == Len(sig) - 1 + exponent
    IN  IF Len(sig) > 19 THEN "ParseNotModelled"
        ELSE IF sig = <<>> \/ exponent < 0 THEN "Finite"
        ELSE IF exponent > MaxPow10 \/ top > MaxPow10 THEN "NumberOutOfRange"
        ELSE IF top < MaxPow10 THEN "Finite"
        ELSE IF DigitsLess(Pad(sig, 16), F64MaxBelow) THEN "Finite"
        ELSE IF ~DigitsLess(Pad(sig, 16), F64MaxAbove) THEN "NumberOutOfRange"
        ELSE "ParseNotModelled"

\* Deserializer::parse_exponent, s[j] is e or E; an exponent that
\* overflows i32 (parse_exponent_overflow) is out of range unless the
\* significand is zero or the exponent negative
ParseExponent(s, start, j, significand, starting_exp) ==
    LET positive_exp == At(s, j + 1) # "-"
        d == IF At(s, j + 1) \in {"+", "-"} THEN j + 2 ELSE j + 1
        k == SkipDigits(s, d)
        digits == StripZeros(SubSeq(s, d, k - 1))
        exp == DigitsValue(s, k - Len(digits), k)
        final_exp ==
            IF positive_exp THEN starting_exp + exp ELSE starting_exp - exp
        f == IF Len(StripZeros(significand)) > 19 THEN "ParseNotModelled"
             ELSE IF Len(digits) > 9
             THEN IF StripZeros(significand) # <<>> /\ positive_exp
                  THEN "NumberOutOfRange"
                  ELSE "Finite"
             ELSE f64_from_parts(significand, final_exp)
    IN  IF d > Len(s) THEN Fail("EofWhileParsingValue")
        ELSE IF s[d] \notin Digits THEN Fail("InvalidNumber")
        ELSE IF f # "Finite" THEN Fail(f)
        ELSE Ok(JFloat(SubSeq(s, start, k - 1)), k)

\* Deserializer::parse_decimal, s[j] is "."; significand is the sequence
\* of the integer digits
ParseDecimal(s, start, j, significand) ==
    LET k == SkipDigits(s, j + 1)
        all == significand \o SubSeq(s, j + 1, k - 1)
        exponent == 0 - (k - j - 1)
        f == f64_from_parts(all, exponent)
    IN  IF k = j + 1
        THEN IF k > Len(s) THEN Fail("EofWhileParsingValue")
             ELSE Fail("InvalidNumber")
        ELSE IF At(s, k) \in {"e", "E"}
        THEN ParseExponent(s, start, k, all, exponent)
        ELSE IF f # "Finite" THEN Fail(f)
        ELSE Ok(JFloat(SubSeq(s, start, k - 1)), k)

\* Deserializer::parse_number: the integer digits are s[.. j-1]
ParseNumber(s, start, j, positive, significand) ==
    LET digits == SubSeq(s, IF positive THEN start ELSE start + 1, j - 1)
    IN
    IF At(s, j) = "." THEN ParseDecimal(s, start, j, digits)
    ELSE IF At(s, j) \in {"e", "E"} THEN ParseExponent(s, start, j, digits, 0)
    ELSE IF positive THEN Ok(JPosInt(significand), j)
    \* -0 becomes the float -0.0
    ELSE IF significand = 0 THEN Ok(JFloat(SubSeq(s, start, j - 1)), j)
    ELSE Ok(JNegInt(0 - significand), j)

\* Deserializer::parse_integer: i is the position of the first digit
ParseInteger(s, start, i, positive) ==
    IF i > Len(s) THEN Fail("EofWhileParsingValue")
    ELSE IF s[i] = "0"
    THEN IF At(s, i + 1) \in Digits THEN Fail("InvalidNumber")
         ELSE ParseNumber(s, start, i + 1, positive, 0)
    ELSE IF s[i] \in Digits
    THEN LET j == SkipDigits(s, i + 1)
         IN  IF j - i > 9 THEN Fail("ParseNotModelled")
             ELSE ParseNumber(s, start, j, positive, DigitsValue(s, i, j))
    ELSE Fail("InvalidNumber")

\* Deserializer::parse_ident: the characters of ident are expected at i
ParseIdent(s, i, ident, v) ==
    LET n == Len(ident)
        bad == {p \in 1..n : At(s, i + p - 1) # ident[p]}
        first == CHOOSE p \in bad : \A q \in bad : p <= q
    IN  IF bad = {} THEN Ok(v, i + n)
        ELSE IF i + first - 1 > Len(s) THEN Fail("EofWhileParsingValue")
        ELSE Fail("ExpectedSomeIdent")

BackspaceChar == "U+0008"

\* read.rs parse_escape: the character an escape stands for
Unescape(c) ==
    CASE c = "\"" -> "\"" [] c = "\\" -> "\\" [] c = "/" -> "/"
      [] c = "b" -> BackspaceChar [] c = "f" -> "\f" [] c = "n" -> "\n"
      [] c = "r" -> "\r" [] c = "t" -> "\t"

\* the characters U+0000 to U+001F, in the order of their code points
ControlChars ==
    <<"U+0000", "U+0001", "U+0002", "U+0003", "U+0004", "U+0005", "U+0006",
      "U+0007", BackspaceChar, "\t", "\n", "U+000B", "\f", "\r", "U+000E",
      "U+000F", "U+0010", "U+0011", "U+0012", "U+0013", "U+0014", "U+0015",
      "U+0016", "U+0017", "U+0018", "U+0019", "U+001A", "U+001B", "U+001C",
      "U+001D", "U+001E", "U+001F">>

\* read.rs ESCAPE: a character below U+0020 may not stand raw in a string
IsControl(c) == \E n \in 1..Len(ControlChars) : ControlChars[n] = c

\* read.rs parse_str: i is the position after the opening quote
RECURSIVE ParseStr(_, _, _)
ParseStr(s, i, acc) ==
    IF i > Len(s) THEN Fail("EofWhileParsingString")
    ELSE IF s[i] = "\"" THEN Ok(acc, i + 1)
    ELSE IF s[i] = "\\"
    THEN IF i + 1 > Len(s) THEN Fail("EofWhileParsingString")
         ELSE IF s[i + 1] \in {"\"", "\\", "/", "b", "f", "n", "r", "t"}
         THEN ParseStr(s, i + 2, Append(acc, Unescape(s[i + 1])))
         ELSE IF s[i + 1] = "u" THEN Fail("ParseNotModelled")
         ELSE Fail("InvalidEscape")
    ELSE IF IsControl(s[i]) THEN Fail("ControlCharacterWhileParsingString")
    ELSE ParseStr(s, i + 1, Append(acc, s[i]))

\* Deserializer::new: remaining_depth starts at 128
RecursionLimit == 128

RECURSIVE ParseValue(_, _, _)
RECURSIVE ParseSeq(_, _, _, _, _)
RECURSIVE ParseMap(_, _, _, _, _)

\* SeqAccess::next_element_seed in a loop: i is the position after "[" or
\* after the last element
ParseSeq(s, i, first, acc, remaining_depth) ==
    LET j == SkipWs(s, i)
        elem(k) ==
            LET r == ParseValue(s, k, remaining_depth)
            IN  IF r.ok
                THEN ParseSeq(s, r.i, FALSE, Append(acc, r.v), remaining_depth)
                ELSE r
    IN  IF j > Len(s) THEN Fail("EofWhileParsingList")
        ELSE IF s[j] = "]" THEN Ok(JArr(acc), j + 1)
        ELSE IF s[j] = "," /\ ~first
        THEN LET k == SkipWs(s, j + 1)
             IN  IF k > Len(s) THEN Fail("EofWhileParsingValue")
                 ELSE IF s[k] = "]" THEN Fail("TrailingComma")
                 ELSE elem(k)
        ELSE IF first THEN elem(j)
        ELSE Fail("ExpectedListCommaOrEnd")

\* MapAccess::next_key_seed and next_value_seed in a loop; Map::insert
\* replaces the value of a key that is already there
ParseMap(s, i, first, m, remaining_depth) ==
    LET j == SkipWs(s, i)
        entry(k) ==
            IF k > Len(s) THEN Fail("EofWhileParsingValue")
            ELSE IF s[k] = "\""
            THEN LET key == ParseStr(s, k + 1, <<>>)
                     c == SkipWs(s, key.i)
                     r == ParseValue(s, c + 1, remaining_depth)
                 IN  IF ~key.ok THEN key
                     ELSE IF c > Len(s) THEN Fail("EofWhileParsingObject")
                     ELSE IF s[c] # ":" THEN Fail("ExpectedColon")
                     ELSE IF ~r.ok THEN r
                     ELSE ParseMap(s, r.i, FALSE, (key.v :> r.v) @@ m,
                                   remaining_depth)
            ELSE IF s[k] = "}" THEN Fail("TrailingComma")
            ELSE Fail("KeyMustBeAString")
    IN  IF j > Len(s) THEN Fail("EofWhileParsingObject")
        ELSE IF s[j] = "}" THEN Ok(JObj(m), j + 1)
        ELSE IF s[j] = "," /\ ~first THEN entry(SkipWs(s, j + 1))
        ELSE IF first THEN entry(j)
        ELSE Fail("ExpectedObjectCommaOrEnd")

\* Deserializer::deserialize_any with Value's visitor; check_recursion
\* takes one from remaining_depth at "[" and at "{" and fails at zero
ParseValue(s, i, remaining_depth) ==
    LET j == SkipWs(s, i)
        c == At(s, j)
    IN  IF j > Len(s) THEN Fail("EofWhileParsingValue")
        ELSE IF c = "n" THEN ParseIdent(s, j + 1, <<"u", "l", "l">>, JNull)
        ELSE IF c = "t" THEN ParseIdent(s, j + 1, <<"r", "u", "e">>, JBool(TRUE))
        ELSE IF c = "f"
        THEN ParseIdent(s, j + 1, <<"a", "l", "s", "e">>, JBool(FALSE))
        ELSE IF c = "-" THEN ParseInteger(s, j, j + 1, FALSE)
        ELSE IF c \in Digits THEN ParseInteger(s, j, j, TRUE)
        ELSE IF c = "\""
        THEN LET r == ParseStr(s, j + 1, <<>>)
             IN  IF r.ok THEN Ok(JStr(r.v), r.i) ELSE r
        ELSE IF c \in {"[", "{"} /\ remaining_depth - 1 = 0
        THEN Fail("RecursionLimitExceeded")
        ELSE IF c = "[" THEN ParseSeq(s, j + 1, TRUE, <<>>, remaining_depth - 1)
        ELSE IF c = "{"
        THEN ParseMap(s, j + 1, TRUE, EmptyMap, remaining_depth - 1)
        ELSE Fail("ExpectedSomeValue")

\* serde_json::from_str::<Value>: one value, then only whitespace
from_str(s) ==
    LET r == ParseValue(s, 1, RecursionLimit)
    IN  IF ~r.ok THEN r
        ELSE IF SkipWs(s, r.i) <= Len(s) THEN Fail("TrailingCharacters")
        ELSE r

(***************************************************************************)
(* ChatAction::try_from_reply                                              *)
(***************************************************************************)

Str_action == <<"a", "c", "t", "i", "o", "n">>
Str_insert_node == <<"i", "n", "s", "e", "r", "t", "_", "n", "o", "d", "e">>
Str_modify_node == <<"m", "o", "d", "i", "f", "y", "_", "n", "o", "d", "e">>
Str_reply == <<"r", "e", "p", "l", "y">>
Str_insert_after == <<"i", "n", "s", "e", "r", "t", "_", "a", "f", "t", "e", "r">>
Str_id == <<"i", "d">>
Str_node_type == <<"n", "o", "d", "e", "_", "t", "y", "p", "e">>
Str_content == <<"c", "o", "n", "t", "e", "n", "t">>

\* Value::get(key): Some(value) for an object that has the key
Get(v, key) == IF v.k = "obj" /\ key \in DOMAIN v.m THEN <<v.m[key]>> ELSE <<>>

\* Value::as_str
AsStr(v) == IF v.k = "str" THEN <<v.s>> ELSE <<>>

\* a field of a derived Deserialize struct: present and a JSON string
IsStringField(v, key) == Get(v, key) # <<>> /\ Get(v, key)[1].k = "str"

\* faulty variant: the field read as a signed integer
IsUsizeField_Signed(v, key) ==
    /\ Get(v, key) # <<>>
    /\ Get(v, key)[1].k = "num"
    /\ Get(v, key)[1].n.kind \in {"PosInt", "NegInt"}

\* present and a usize: a non-negative integer (a negative integer and a
\* float are rejected; every integer of the model fits a usize)
IsUsizeField(v, key) ==
    /\ Get(v, key) # <<>>
    /\ Get(v, key)[1].k = "num"
    /\ Get(v, key)[1].n.kind = "PosInt"

\* the results of try_from_reply
ReplyAction(a, c) == [tag |-> "Reply", action |-> a, content |-> c]
InsertNodeAction(a, n, t, c) ==
    [tag |-> "InsertNode", action |-> a, insert_after |-> n, node_type |-> t,
     content |-> c]
ModifyNodeAction(a, n, t, c) ==
    [tag |-> "ModifyNode", action |-> a, id |-> n, node_type |-> t, content |-> c]
\* serde_json::Error from from_str
JsonError(code) == [tag |-> "Err", kind |-> "Json", code |-> code]
\* serde_json::Error from from_value::<T>
ShapeError(target) == [tag |-> "Err", kind |-> "Shape", target |-> target]
\* anyhow!("Invalid action: {}", action_type)
InvalidActionError(v) == [tag |-> "Err", kind |-> "InvalidAction", value |-> v]

\* impl From<&str> for Reply
ReplyFrom(content) == ReplyAction(Str_reply, content)

\* faulty variant: node_type and content change places
FromValueInsertNode_Swapped(v) ==
    IF /\ IsStringField(v, Str_action)
       /\ IsUsizeField(v, Str_insert_after)
       /\ IsStringField(v, Str_node_type)
       /\ IsStringField(v, Str_content)
    THEN InsertNodeAction(v.m[Str_action].s, v.m[Str_insert_after].n.v,
                          v.m[Str_content].s, v.m[Str_node_type].s)
    ELSE ShapeError("InsertNode")

\* serde_json::from_value::<InsertNode>
FromValueInsertNode(v) ==
    IF /\ IsStringField(v, Str_action)
       /\ IsUsizeField(v, Str_insert_after)
       /\ IsStringField(v, Str_node_type)
       /\ IsStringField(v, Str_content)
    THEN InsertNodeAction(v.m[Str_action].s, v.m[Str_insert_after].n.v,
                          v.m[Str_node_type].s, v.m[Str_content].s)
    ELSE ShapeError("InsertNode")

\* serde_json::from_value::<ModifyNode>
FromValueModifyNode(v) ==
    IF /\ IsStringField(v, Str_action)
       /\ IsUsizeField(v, Str_id)
       /\ IsStringField(v, Str_node_type)
       /\ IsStringField(v, Str_content)
    THEN ModifyNodeAction(v.m[Str_action].s, v.m[Str_id].n.v,
                          v.m[Str_node_type].s, v.m[Str_content].s)
    ELSE ShapeError("ModifyNode")

\* serde_json::from_value::<Reply>
FromValueReply(v) ==
    IF IsStringField(v, Str_action) /\ IsStringField(v, Str_content)
    THEN ReplyAction(v.m[Str_action].s, v.m[Str_content].s)
    ELSE ShapeError("Reply")

\* faulty variant: an action that is not known is read as a reply
MatchAction_UnknownAsReply(parsed_json, action_type) ==
    IF AsStr(action_type) = <<Str_insert_node>>
    THEN FromValueInsertNode(parsed_json)
    ELSE IF AsStr(action_type) = <<Str_modify_node>>
    THEN FromValueModifyNode(parsed_json)
    ELSE FromValueReply(parsed_json)

\* faulty variant: the arm of "modify_node" decodes an InsertNode
MatchAction_ModifyAsInsert(parsed_json, action_type) ==
    IF AsStr(action_type) \in {<<Str_insert_node>>, <<Str_modify_node>>}
    THEN FromValueInsertNode(parsed_json)
    ELSE IF AsStr(action_type) = <<Str_reply>> THEN FromValueReply(parsed_json)
    ELSE InvalidActionError(action_type)

\* agent.rs 197-210: the match on action_type.as_str()
MatchAction(parsed_json, action_type) ==
    IF AsStr(action_type) = <<Str_insert_node>>
    THEN FromValueInsertNode(parsed_json)
    ELSE IF AsStr(action_type) = <<Str_modify_node>>
    THEN FromValueModifyNode(parsed_json)
    ELSE IF AsStr(action_type) = <<Str_reply>> THEN FromValueReply(parsed_json)
    ELSE InvalidActionError(action_type)

\* faulty variant: an object without an action is an error
ParseJsonReply_MissingActionIsError(cleaned) ==
    LET parsed == from_str(cleaned)
    IN  IF ~parsed.ok THEN JsonError(parsed.err)
        ELSE IF Get(parsed.v, Str_action) = <<>> THEN InvalidActionError(JNull)
        ELSE MatchAction(parsed.v, Get(parsed.v, Str_action)[1])

\* faulty variant: a text that is not JSON is a reply
ParseJsonReply_MalformedIsReply(cleaned) ==
    LET parsed == from_str(cleaned)
    IN  IF ~parsed.ok THEN ReplyFrom(cleaned)
        ELSE IF Get(parsed.v, Str_action) = <<>> THEN ReplyFrom(cleaned)
        ELSE MatchAction(parsed.v, Get(parsed.v, Str_action)[1])

\* agent.rs 190-214: the reply starts with "{"
ParseJsonReply(cleaned) ==
    LET parsed == from_str(cleaned)
    IN  IF ~parsed.ok THEN JsonError(parsed.err)
        ELSE IF Get(parsed.v, Str_action) = <<>> THEN ReplyFrom(cleaned)
        ELSE MatchAction(parsed.v, Get(parsed.v, Str_action)[1])

\* faulty variant: no second trim after the code frame is removed
try_from_reply_NoSecondTrim(r) ==
    LET cleaned == TrimEndMatches(TrimStartMatches(Trim(r), CodeFrame), CodeFrame)
    IN  IF StartsWith(cleaned, <<"{">>) THEN ParseJsonReply(cleaned)
        ELSE ReplyFrom(cleaned)

\* agent.rs 178-219
try_from_reply(r) ==
    LET cleaned == CleanReply(r)
    IN  IF StartsWith(cleaned, <<"{">>) THEN ParseJsonReply(cleaned)
        ELSE ReplyFrom(cleaned)

(***************************************************************************)
(* The replies try_from_reply is applied to                                *)
(***************************************************************************)

\* the longest reply drawn from all strings over RawAlphabet
MaxRawLen == 3

RawAlphabet == {Backtick, " ", "{", "}", "a", "\""}

RawReplies == UNION {[1..n -> RawAlphabet] : n \in 0..MaxRawLen}

Str_delete_node == <<"d", "e", "l", "e", "t", "e", "_", "n", "o", "d", "e">>
Str_text == <<"t", "e", "x", "t">>
Str_foo == <<"f", "o", "o">>
Str_bar == <<"b", "a", "r">>
Str_json == <<"j", "s", "o", "n">>
Str_hi == <<"h", "i">>

\* the JSON text of a string that needs no escape
Quoted(s) == <<"\"">> \o s \o <<"\"">>

\* the JSON text of one object member
Member(key, valueText) == Quoted(key) \o <<":">> \o valueText

RECURSIVE Join(_, _)
Join(parts, sep) ==
    IF parts = <<>> THEN <<>>
    ELSE IF Len(parts) = 1 THEN parts[1]
    ELSE parts[1] \o sep \o Join(Tail(parts), sep)

\* each option is the sequence of members (none or one) a field contributes
ActionOptions ==
    {<<>>} \cup
    {<<Member(Str_action, v)>> :
        v \in {Quoted(Str_insert_node), Quoted(Str_modify_node),
               Quoted(Str_reply), Quoted(Str_delete_node),
               <<"1">>, <<"n", "u", "l", "l">>}}

IndexOptions ==
    {<<>>} \cup
    {<<Member(key, v)>> :
        key \in {Str_insert_after, Str_id},
        v \in {<<"2">>, <<"1", "0">>, <<"-", "1">>, Quoted(<<"2">>),
               <<"1", ".", "5">>}}

NodeTypeOptions ==
    {<<>>, <<Member(Str_node_type, Quoted(Str_text))>>,
     <<Member(Str_node_type, <<"5">>)>>}

\* the third content is the JSON text "a\nb", an escaped line feed
ContentOptions ==
    {<<>>, <<Member(Str_content, Quoted(<<"x">>))>>,
     <<Member(Str_content, Quoted(<<"a", "\\", "n", "b">>))>>,
     <<Member(Str_content, <<"7">>)>>}

\* an unknown field, and a second action member
ExtraOptions ==
    {<<>>, <<Member(Str_foo, Quoted(Str_bar))>>,
     <<Member(Str_action, Quoted(Str_reply))>>}

Separators == {<<",">>, <<" ", ",", "\n", " ">>}

\* how the object text ends: closed, cut short, followed by text, with a
\* trailing comma
Endings == {<<"}">>, <<>>, <<"}", "x">>, <<",", "}">>}

JsonReplies ==
    {<<"{">> \o Join(a \o i \o t \o c \o x, sep) \o e :
        a \in ActionOptions, i \in IndexOptions, t \in NodeTypeOptions,
        c \in ContentOptions, x \in ExtraOptions, sep \in Separators,
        e \in Endings}

\* the texts that are wrapped in code fences and whitespace
WrapInners ==
    {<<>>, Str_hi, <<"h", "i", " ", "{", "}">>,
     <<Backtick, "x">>, <<"x", Backtick, Backtick>>,
     <<"{", "}">>, <<"{", "x">>,
     <<"{">> \o Member(Str_foo, Quoted(Str_bar)) \o <<"}">>,
     <<"{">> \o Member(Str_action, Quoted(Str_delete_node)) \o <<"}">>,
     <<"{">> \o Join(<<Member(Str_action, Quoted(Str_reply)),
                       Member(Str_content, Quoted(Str_hi))>>, <<",">>) \o <<"}">>,
     <<"{">> \o Join(<<Member(Str_action, Quoted(Str_insert_node)),
                       Member(Str_insert_after, <<"2">>),
                       Member(Str_node_type, Quoted(Str_text)),
                       Member(Str_content, Quoted(<<"x">>))>>, <<",">>) \o <<"}">>}

\* a wrapping: whitespace, an opening fence with an optional language tag
\* (a tag is followed by a line feed), the text, a closing fence, whitespace
Wraps ==
    [lead : {<<>>, <<" ", "\n", "U+000B">>},
     open : BOOLEAN,
     tag : {<<>>, Str_json \o <<"\n">>},
     gap : {<<>>, <<"\n">>},
     close : BOOLEAN,
     trail : {<<>>, <<" ">>, <<"\n", "\f", "U+00A0">>}]

NoWrap ==
    [lead |-> <<>>, open |-> FALSE, tag |-> <<>>, gap |-> <<>>,
     close |-> FALSE, trail |-> <<>>]

\* the reply that wraps the text r
Wrapped(r, w) ==
    w.lead \o (IF w.open THEN CodeFrame \o w.tag ELSE <<>>) \o w.gap \o r
           \o w.gap \o (IF w.close THEN CodeFrame ELSE <<>>) \o w.trail

(***************************************************************************)
(* The call of try_from_reply (agent.rs 151)                               *)
(***************************************************************************)

NoAction == [tag |-> "None"]

BriefIdle == bpc = "idle" /\ note = <<>> /\ index = 0 /\ briefs = <<>>

\* no Result<Note> yet
NoDoc == [ok |-> FALSE, err |-> "None"]

NoPrompt == [ok |-> FALSE, err |-> "None"]
NoCtx == [note |-> <<>>, cursor_position |-> 0]

PromptIdle == qpc = "idle" /\ ctx = NoCtx /\ prompt = NoPrompt

NoChat == [session_id |-> 0]
NoReply == [kind |-> "None"]
NoResult == [of |-> 0, v |-> [tag |-> "None"]]

ChatIdle ==
    /\ handler = "none" /\ hpc = "idle" /\ calls = 0 /\ sent = NoChat
    /\ got = NoReply /\ result = NoResult
    /\ chat_ch = <<>> /\ reply_ch = <<>> /\ tpc = "idle" /\ held = NoReply

NoRuntime == [agent |-> <<>>, running |-> FALSE]

RuntimeIdle ==
    /\ runtime = NoRuntime /\ launches = 0 /\ cpc = <<>> /\ owner = 0
    /\ ret = <<>> /\ seen = <<>>

SerdeIdle ==
    /\ spc = "idle" /\ payload = JNull /\ doc = NoDoc /\ written = JNull
    /\ reparsed = NoDoc

InitParse ==
    /\ ppc = "call"
    /\ action = NoAction
    /\ \/ /\ reply \in RawReplies \cup JsonReplies
          /\ inner = reply
          /\ wrap = NoWrap
       \/ /\ inner \in WrapInners
          /\ wrap \in {w \in Wraps : w.tag # <<>> => w.open}
          /\ reply = Wrapped(inner, wrap)
    /\ BriefIdle
    /\ SerdeIdle
    /\ PromptIdle
    /\ ChatIdle
    /\ RuntimeIdle

TryFromReply ==
    /\ ppc = "call"
    /\ action' = try_from_reply(reply)
    /\ ppc' = "done"
    /\ UNCHANGED <<reply, inner, wrap>>
    /\ UNCHANGED <<briefVars, serdeVars, promptVars, chatVars, runtimeVars>>

NextParse == TryFromReply

SpecParse == InitParse /\ [][NextParse]_vars

\* the step that ends a call
Returns == ppc = "call" /\ ppc' = "done"

\* a call that has started runs to its end: the function is synchronous
FairParse == SpecParse /\ WF_ppc(Returns)

(***************************************************************************)
(* Claims about try_from_reply, checked under SpecParse                    *)
(***************************************************************************)

\* the JSON value of the cleaned reply, when the cleaned reply is the text
\* of a JSON object
CleanedIsObject ==
    from_str(CleanReply(reply)).ok /\ from_str(CleanReply(reply)).v.k = "obj"

CleanedObject == from_str(CleanReply(reply)).v

KnownActions == {Str_insert_node, Str_modify_node, Str_reply}

C1_Case ==
    /\ ppc = "done"
    /\ CleanedIsObject
    /\ Str_action \in DOMAIN CleanedObject.m
    /\ ~(/\ CleanedObject.m[Str_action].k = "str"
         /\ CleanedObject.m[Str_action].s \in KnownActions)

\* C1: a reply whose cleaned text is a JSON object with an action field that
\* is not "insert_node", "modify_node" or "reply" (another string, or not a
\* string) gives an error that carries the value of the field, never a Reply.
C1_UnknownActionIsError ==
    C1_Case =>
        /\ action.tag = "Err"
        /\ action.kind = "InvalidAction"
        /\ action.value = CleanedObject.m[Str_action]

C1_Witness ==
    /\ C1_Case
    /\ wrap.open
    /\ action = InvalidActionError(JStr(Str_delete_node))

C2_Case ==
    /\ ppc = "done"
    /\ CleanedIsObject
    /\ Str_action \notin DOMAIN CleanedObject.m

\* C2: a reply whose cleaned text is a JSON object without an action field
\* gives a Reply whose content is the whole cleaned text.
C2_ActionlessObjectIsReply ==
    C2_Case =>
        /\ action.tag = "Reply"
        /\ action.action = Str_reply
        /\ action.content = CleanReply(reply)

C2_Witness ==
    /\ C2_Case
    /\ Str_foo \in DOMAIN CleanedObject.m
    /\ wrap.open
    /\ action.tag = "Reply"
    /\ action.content = CleanReply(reply)
    /\ Len(reply) > Len(action.content)

C3_Case == ppc = "done" /\ ~StartsWith(CleanReply(reply), <<"{">>)

\* C3: a reply whose text, trimmed and with the code fences removed, does
\* not start with "{" gives a Reply whose content is exactly that text.
C3_ProseIsReply ==
    C3_Case =>
        /\ action.tag = "Reply"
        /\ action.action = Str_reply
        /\ action.content = CleanReply(reply)

C3_Witness ==
    /\ C3_Case
    /\ wrap.open /\ wrap.close /\ wrap.lead # <<>>
    /\ action = ReplyFrom(<<"h", "i", " ", "{", "}">>)

C4_Case ==
    /\ ppc = "done"
    /\ StartsWith(CleanReply(reply), <<"{">>)
    /\ ~from_str(CleanReply(reply)).ok

\* C4: a reply whose cleaned text starts with "{" and is not valid JSON gives
\* an error, never a Reply that carries the text.
C4_MalformedJsonIsError ==
    C4_Case => action.tag = "Err" /\ action.kind = "Json"

C4_Witness ==
    /\ C4_Case
    /\ action = JsonError("KeyMustBeAString")

\* r carries no fence of its own: three backticks in a row occur nowhere in r
NoFence(r) ==
    \A i \in 1..Len(r) : ~StartsWith(SubSeq(r, i, Len(r)), CodeFrame)

\* C5: the reply that wraps a fence-free text r in a leading and/or trailing
\* code fence, the opening fence with or without a language tag, and in
\* whitespace, gives the result try_from_reply gives for r alone.
C5_FenceIsTransparent ==
    (ppc = "done" /\ NoFence(inner)) => action = try_from_reply(inner)

C6_InsertCase ==
    /\ ppc = "done"
    /\ CleanedIsObject
    /\ {Str_action, Str_insert_after, Str_node_type, Str_content}
           \subseteq DOMAIN CleanedObject.m
    /\ CleanedObject.m[Str_action] = JStr(Str_insert_node)
    /\ CleanedObject.m[Str_insert_after].k = "num"
    /\ CleanedObject.m[Str_insert_after].n.kind = "PosInt"
    /\ CleanedObject.m[Str_node_type].k = "str"
    /\ CleanedObject.m[Str_content].k = "str"

C6_ModifyCase ==
    /\ ppc = "done"
    /\ CleanedIsObject
    /\ {Str_action, Str_id, Str_node_type, Str_content}
           \subseteq DOMAIN CleanedObject.m
    /\ CleanedObject.m[Str_action] = JStr(Str_modify_node)
    /\ CleanedObject.m[Str_id].k = "num"
    /\ CleanedObject.m[Str_id].n.kind = "PosInt"
    /\ CleanedObject.m[Str_node_type].k = "str"
    /\ CleanedObject.m[Str_content].k = "str"

\* C6: a JSON object with action "insert_node" (resp. "modify_node") and
\* well-typed insert_after (resp. id), node_type and content gives an
\* InsertNode (resp. ModifyNode) with exactly these values and that action.
C6_WellTypedActionIsDecoded ==
    /\ C6_InsertCase =>
        /\ action.tag = "InsertNode"
        /\ action.action = Str_insert_node
        /\ action.insert_after = CleanedObject.m[Str_insert_after].n.v
        /\ action.node_type = CleanedObject.m[Str_node_type].s
        /\ action.content = CleanedObject.m[Str_content].s
    /\ C6_ModifyCase =>
        /\ action.tag = "ModifyNode"
        /\ action.action = Str_modify_node
        /\ action.id = CleanedObject.m[Str_id].n.v
        /\ action.node_type = CleanedObject.m[Str_node_type].s
        /\ action.content = CleanedObject.m[Str_content].s

C6_Witness ==
    /\ C6_InsertCase
    /\ action = InsertNodeAction(Str_insert_node, 10, Str_text, <<"a", "\n", "b">>)

\* the fields the action named s requires, beside the action itself
RequiredUsize(s) ==
    IF s = Str_insert_node THEN {Str_insert_after}
    ELSE IF s = Str_modify_node THEN {Str_id}
    ELSE {}

RequiredStrings(s) ==
    IF s = Str_reply THEN {Str_content} ELSE {Str_node_type, Str_content}

C7_Case ==
    /\ ppc = "done"
    /\ CleanedIsObject
    /\ Str_action \in DOMAIN CleanedObject.m
    /\ CleanedObject.m[Str_action].k = "str"
    /\ CleanedObject.m[Str_action].s \in KnownActions
    /\ LET m == CleanedObject.m
           s == m[Str_action].s
       IN  \/ \E f \in RequiredUsize(s) :
                \/ f \notin DOMAIN m
                \/ m[f].k # "num"
                \/ m[f].n.kind # "PosInt"
           \/ \E f \in RequiredStrings(s) : f \notin DOMAIN m \/ m[f].k # "str"

\* C7: a JSON object that names a known action and lacks a required field of
\* it, or gives it the wrong type, gives an error: no Reply, no action.
C7_MalformedShapeIsError ==
    C7_Case => action.tag = "Err" /\ action.kind = "Shape"

C7_Witness ==
    /\ C7_Case
    /\ CleanedObject.m[Str_action] = JStr(Str_insert_node)
    /\ {Str_insert_after, Str_node_type, Str_content} \subseteq DOMAIN CleanedObject.m
    /\ CleanedObject.m[Str_insert_after] = JNegInt(0 - 1)
    /\ CleanedObject.m[Str_node_type].k = "str"
    /\ CleanedObject.m[Str_content].k = "str"
    /\ action = ShapeError("InsertNode")

\* the action field of the cleaned reply, when it is the text of an object
ActionField ==
    IF from_str(CleanReply(reply)).ok THEN Get(CleanedObject, Str_action)
    ELSE <<>>

C8_Result ==
    ppc = "done" =>
        /\ action.tag \in {"Reply", "InsertNode", "ModifyNode", "Err"}
        /\ action.tag = "InsertNode" => ActionField = <<JStr(Str_insert_node)>>
        /\ action.tag = "ModifyNode" => ActionField = <<JStr(Str_modify_node)>>

\* C8: try_from_reply returns for every reply, and returns a Reply, an
\* InsertNode, a ModifyNode or an error; an InsertNode only for the action
\* "insert_node" and a ModifyNode only for the action "modify_node".
C8_Total == <>(ppc = "done") /\ []C8_Result

\* a reply made only of backticks
C8_Witness ==
    /\ ppc = "done"
    /\ reply = CodeFrame
    /\ action = ReplyFrom(<<>>)

\* no reply of the model reaches a part of serde_json the model leaves out
ParserWithinModel ==
    ppc = "done" => ~(action.tag = "Err" /\ action.kind = "Json"
                      /\ action.code = "ParseNotModelled")

(***************************************************************************)
(* LexicalNode and Note::get_brief                                         *)
(*                                                                         *)
(* A node keeps its variant and the fields the brief reads.                *)
(***************************************************************************)

Text(t) == [variant |-> "Text", text |-> t]
Paragraph(c) == [variant |-> "Paragraph", children |-> c]
Heading(c) == [variant |-> "Heading", children |-> c]
List(c) == [variant |-> "List", children |-> c]
ListItem(c) == [variant |-> "ListItem", children |-> c]
Quote(c) == [variant |-> "Quote", children |-> c]
\* text: Option<String>, children: Option<Vec<LexicalNode>>
Code(t, c) == [variant |-> "Code", text |-> t, children |-> c]
Link(u, c) == [variant |-> "Link", url |-> u, children |-> c]
AutoLink(u, c) == [variant |-> "AutoLink", url |-> u, children |-> c]
Hashtag(t) == [variant |-> "Hashtag", text |-> t]
Table(c) == [variant |-> "Table", children |-> c]
TableRow(c) == [variant |-> "TableRow", children |-> c]
TableCell(c) == [variant |-> "TableCell", children |-> c]
PageBreak == [variant |-> "PageBreak"]
AIEmbedding(c) == [variant |-> "AIEmbedding", content |-> c]
VoiceInput(c) == [variant |-> "VoiceInput", content |-> c]
ChatMessage(s, c) == [variant |-> "ChatMessage", sender |-> s, content |-> c]
\* messages: Vec<ChatSessionMessage>, each with a sender and a content
ChatSession(m) == [variant |-> "ChatSession", messages |-> m]
Mention(t) == [variant |-> "Mention", text |-> t]
ChatSessionMessage(s, c) == [sender |-> s, content |-> c]

\* impl Display for MessageSender
SenderToString(s) ==
    CASE s = "User" -> <<"u", "s", "e", "r">>
      [] s = "Agent" -> <<"a", "g", "e", "n", "t">>
      [] s = "System" -> <<"s", "y", "s", "t", "e", "m">>

Bullet == "U+2022"

RECURSIVE extract_text_from_nodes(_)
RECURSIVE MessagesText(_)

\* the content of the messages of a chat session, one after the other
MessagesText(msgs) ==
    IF msgs = <<>> THEN <<>>
    ELSE Head(msgs).content \o MessagesText(Tail(msgs))

\* note.rs 452-518: what one node pushes to the text
ExtractedText(node) ==
    LET v == node.variant
    IN  IF v \in {"Text", "Hashtag", "Mention"} THEN node.text
        ELSE IF v \in {"Paragraph", "Heading", "List", "Quote", "Link",
                       "AutoLink", "Table", "TableRow", "TableCell"}
        THEN extract_text_from_nodes(node.children)
        ELSE IF v = "ListItem"
        THEN <<Bullet, " ">> \o extract_text_from_nodes(node.children)
        ELSE IF v = "Code"
        THEN (IF node.text # <<>> THEN node.text[1] ELSE <<>>)
             \o (IF node.children # <<>>
                 THEN extract_text_from_nodes(node.children[1])
                 ELSE <<>>)
        ELSE IF v \in {"AIEmbedding", "VoiceInput", "ChatMessage"}
        THEN node.content
        ELSE IF v = "ChatSession" THEN MessagesText(node.messages)
        \* a page break pushes nothing
        ELSE <<>>

extract_text_from_nodes(nodes) ==
    IF nodes = <<>> THEN <<>>
    ELSE ExtractedText(Head(nodes)) \o extract_text_from_nodes(Tail(nodes))

\* format!("[{}] {}", msg.sender.to_string(), msg.content)
FormatMessage(msg) ==
    <<"[">> \o SenderToString(msg.sender) \o <<"]", " ">> \o msg.content

\* .map(format).collect::<Vec<_>>().join("\n")
RECURSIVE JoinMessages(_)
JoinMessages(msgs) ==
    IF msgs = <<>> THEN <<>>
    ELSE IF Len(msgs) = 1 THEN FormatMessage(msgs[1])
    ELSE FormatMessage(msgs[1]) \o <<"\n">> \o JoinMessages(Tail(msgs))

\* format!("{} ({})", text, url)
FormatLink(text, url) == text \o <<" ", "(">> \o url \o <<")">>

\* note.rs 50-92: the type discriminator serde writes for a node
TypeTag(node) ==
    LET v == node.variant
    IN  CASE v = "Text" -> "text"
          [] v = "Paragraph" -> "paragraph"
          [] v = "Heading" -> "heading"
          [] v = "List" -> "list"
          [] v = "ListItem" -> "listitem"
          [] v = "Quote" -> "quote"
          [] v = "Code" -> "code"
          [] v = "Link" -> "link"
          [] v = "AutoLink" -> "autolink"
          [] v = "Hashtag" -> "hashtag"
          [] v = "Table" -> "table"
          [] v = "TableRow" -> "tablerow"
          [] v = "TableCell" -> "tablecell"
          [] v = "PageBreak" -> "page-break"
          [] v = "AIEmbedding" -> "ai-embedding"
          [] v = "VoiceInput" -> "voice-input"
          [] v = "ChatMessage" -> "chat-message"
          [] v = "ChatSession" -> "chat-session"
          [] v = "Mention" -> "mention"

\* note.rs 355-435: the node type of a top-level node
BriefNodeType(node) ==
    LET v == node.variant
    IN  CASE v = "Text" -> "text"
          [] v = "Paragraph" -> "paragraph"
          [] v = "Heading" -> "heading"
          [] v = "List" -> "list"
          [] v = "ListItem" -> "listitem"
          [] v = "Quote" -> "quote"
          [] v = "Code" -> "code"
          [] v = "Link" -> "link"
          [] v = "AutoLink" -> "autolink"
          [] v = "Hashtag" -> "hashtag"
          [] v = "Table" -> "table"
          [] v = "TableRow" -> "tablerow"
          [] v = "TableCell" -> "tablecell"
          [] v = "PageBreak" -> "page-break"
          [] v = "AIEmbedding" -> "ai-embedding"
          [] v = "VoiceInput" -> "voice-input"
          [] v = "ChatMessage" -> "chat-message"
          [] v = "ChatSession" -> "chat-session"
          [] v = "Mention" -> "mention"

\* note.rs 355-435: the content of a top-level node
BriefContent(node) ==
    LET v == node.variant
    IN  IF v \in {"Text", "Hashtag", "Mention"} THEN node.text
        ELSE IF v \in {"Paragraph", "Heading", "List", "ListItem", "Quote",
                       "Table", "TableRow", "TableCell"}
        THEN extract_text_from_nodes(node.children)
        ELSE IF v = "Code"
        THEN IF node.text # <<>> THEN node.text[1]
             ELSE IF node.children # <<>>
             THEN extract_text_from_nodes(node.children[1])
             ELSE <<>>
        ELSE IF v \in {"Link", "AutoLink"}
        THEN FormatLink(extract_text_from_nodes(node.children), node.url)
        ELSE IF v = "PageBreak" THEN <<"-", "-", "-">>
        ELSE IF v \in {"AIEmbedding", "VoiceInput"} THEN node.content
        ELSE IF v = "ChatMessage" THEN FormatMessage(node)
        ELSE JoinMessages(node.messages)

BriefNode(id, node_type, content) ==
    [id |-> id, node_type |-> node_type, content |-> content]

\* faulty variant: the brief is pushed whatever its content
PushBrief_Always(bs, root_index, node_type, content) ==
    Append(bs, BriefNode(root_index, node_type, content))

\* faulty variant: the content is tested without the trim
PushBrief_NoTrim(bs, root_index, node_type, content) ==
    IF content # <<>>
    THEN Append(bs, BriefNode(root_index, node_type, content))
    ELSE bs

\* note.rs 437-444: the brief is pushed when its content is not blank
PushBrief(bs, root_index, node_type, content) ==
    IF Trim(content) # <<>>
    THEN Append(bs, BriefNode(root_index, node_type, content))
    ELSE bs

\* faulty variant: the id is the position in the output
collect_brief_from_node_OutputPosition(node, bs, root_index) ==
    PushBrief(bs, Len(bs), BriefNodeType(node), BriefContent(node))

\* faulty variant: the ids count from one
collect_brief_from_node_OneBased(node, bs, root_index) ==
    PushBrief(bs, root_index + 1, BriefNodeType(node), BriefContent(node))

\* note.rs 354-445
collect_brief_from_node(node, bs, root_index) ==
    PushBrief(bs, root_index, BriefNodeType(node), BriefContent(node))

(***************************************************************************)
(* The notes get_brief is applied to                                       *)
(***************************************************************************)

\* the most top-level children of a note built from CoreNodes
MaxChildren == 3

None == <<>>
Some(x) == <<x>>

T_a == Text(<<"a">>)
T_hi == Text(Str_hi)
T_blank == Text(<<" ">>)
CodeBoth == Code(Some(<<"c">>), Some(<<Text(<<"d">>)>>))

\* the nodes of every length of note
CoreNodes ==
    {Text(<<>>), T_blank, T_hi,
     Paragraph(<<T_hi>>),
     PageBreak,
     List(<<ListItem(<<T_a>>), ListItem(<<>>)>>),
     CodeBoth,
     Quote(<<Paragraph(<<T_blank>>), PageBreak>>),
     Link(<<"u">>, <<>>),
     ChatSession(<<>>)}

\* the nodes of the notes of at most two children
MoreNodes ==
    {Text(<<"\n", "a", " ">>), Text(<<"U+00A0", "U+2003">>),
     Paragraph(<<>>), Paragraph(<<T_hi, T_blank, Hashtag(<<"#", "t">>)>>),
     Heading(<<T_blank, PageBreak>>), Heading(<<Mention(<<"@", "m">>), T_a>>),
     List(<<ListItem(<<>>)>>), List(<<>>),
     ListItem(<<T_a>>), ListItem(<<>>),
     Quote(<<CodeBoth, T_a>>),
     Quote(<<Link(<<"u">>, <<T_a>>), ChatMessage("User", <<"m">>),
             ChatSession(<<ChatSessionMessage("User", <<"p">>),
                           ChatSessionMessage("Agent", <<"q">>)>>)>>),
     Code(None, None), Code(None, Some(<<>>)), Code(None, Some(<<T_hi>>)),
     Code(Some(<<>>), Some(<<T_hi>>)), Code(Some(<<"c">>), None),
     Link(<<"u">>, <<T_a>>), AutoLink(<<>>, <<>>), AutoLink(<<"u">>, <<T_blank>>),
     Hashtag(<<"#", "t">>), Hashtag(<<>>),
     Table(<<TableRow(<<TableCell(<<T_a>>), TableCell(<<T_hi>>)>>)>>),
     Table(<<TableRow(<<TableCell(<<>>)>>)>>),
     TableRow(<<TableCell(<<T_a>>)>>), TableCell(<<T_blank>>),
     AIEmbedding(<<"a", "i">>), AIEmbedding(<<" ">>),
     VoiceInput(<<"v">>), VoiceInput(<<>>),
     ChatMessage("Agent", <<"m">>), ChatMessage("System", <<>>),
     ChatSession(<<ChatSessionMessage("User", <<"p">>),
                   ChatSessionMessage("Agent", <<>>)>>),
     ChatSession(<<ChatSessionMessage("System", <<>>)>>),
     Mention(<<"@", "m">>), Mention(<<" ">>)}

\* root.children of the notes
Notes ==
    UNION {[1..n -> CoreNodes] : n \in 0..MaxChildren}
    \cup UNION {[1..n -> CoreNodes \cup MoreNodes] : n \in 1..2}

(***************************************************************************)
(* Note::get_brief (note.rs 342-351)                                       *)
(***************************************************************************)

ParseIdle ==
    /\ ppc = "idle" /\ reply = <<>> /\ inner = <<>> /\ wrap = NoWrap
    /\ action = NoAction

InitBrief ==
    /\ bpc = "loop"
    /\ note \in Notes
    /\ index = 0
    /\ briefs = <<>>
    /\ ParseIdle
    /\ SerdeIdle
    /\ PromptIdle
    /\ ChatIdle
    /\ RuntimeIdle

\* one turn of the loop over root.children.iter().enumerate()
CollectBriefFromNode ==
    /\ bpc = "loop"
    /\ index < Len(note)
    /\ briefs' = collect_brief_from_node(note[index + 1], briefs, index)
    /\ index' = index + 1
    /\ UNCHANGED <<bpc, note>>
    /\ UNCHANGED <<parseVars, serdeVars, promptVars, chatVars, runtimeVars>>

\* the loop is over: get_brief returns briefs
GetBriefReturn ==
    /\ bpc = "loop"
    /\ index = Len(note)
    /\ bpc' = "done"
    /\ UNCHANGED <<note, index, briefs>>
    /\ UNCHANGED <<parseVars, serdeVars, promptVars, chatVars, runtimeVars>>

NextBrief == CollectBriefFromNode \/ GetBriefReturn

SpecBrief == InitBrief /\ [][NextBrief]_vars

(***************************************************************************)
(* Claims about get_brief, checked under SpecBrief                         *)
(***************************************************************************)

\* C9: every id of the output of get_brief is smaller than the number of
\* top-level children, and the ids are strictly increasing in output order.
C9_IdsValidAndIncreasing ==
    /\ \A k \in 1..Len(briefs) : briefs[k].id >= 0 /\ briefs[k].id < Len(note)
    /\ \A k \in 1..Len(briefs) - 1 : briefs[k].id < briefs[k + 1].id

\* a finished brief with a dropped child between two kept ones
C9_Witness ==
    /\ bpc = "done"
    /\ Len(note) = 3
    /\ Len(briefs) = 2
    /\ briefs[1].id = 0
    /\ briefs[2].id = 2

\* C10: the output of get_brief has an entry with id i exactly when the
\* content of child i is not blank; every entry has a non-empty node type
\* and a content that is not blank.
C10_EntryIffContentNotBlank ==
    bpc = "done" =>
        /\ \A i \in 0..Len(note) - 1 :
            (\E k \in 1..Len(briefs) : briefs[k].id = i)
                <=> Trim(BriefContent(note[i + 1])) # <<>>
        /\ \A k \in 1..Len(briefs) :
            /\ briefs[k].node_type # ""
            /\ Trim(briefs[k].content) # <<>>

\* a child with blank content dropped, one with content kept whose content
\* has whitespace around it
C10_Witness ==
    /\ bpc = "done"
    /\ Len(note) = 2
    /\ note[1] = T_blank
    /\ BriefContent(note[2]) = <<"\n", "a", " ">>
    /\ Len(briefs) = 1
    /\ briefs[1] = BriefNode(1, "text", <<"\n", "a", " ">>)

\* the text extract_text_from_nodes gathers from child i and its descendants
RootText(i) == extract_text_from_nodes(<<note[i + 1]>>)

HasEntry(i) == \E k \in 1..Len(briefs) : briefs[k].id = i

\* C11 as stated: a top-level child of any variant whose recursively
\* extracted text is empty or whitespace-only has no entry in the output.
C11_BlankTextHasNoEntry ==
    bpc = "done" =>
        \A i \in 0..Len(note) - 1 : Trim(RootText(i)) = <<>> => ~HasEntry(i)

\* the variants whose content has text of its own besides the extracted
\* text: "---", the url of a link, the sender of a message
AddsFixedText(node) ==
    \/ node.variant \in {"PageBreak", "Link", "AutoLink", "ChatMessage"}
    \/ node.variant = "ChatSession" /\ node.messages # <<>>

\* C11 amended: a top-level child whose recursively extracted text is empty
\* or whitespace-only has no entry in the output, unless it is a PageBreak,
\* a Link, an AutoLink, a ChatMessage or a ChatSession that has messages.
C11_BlankTextHasNoEntryUnlessFixedText ==
    bpc = "done" =>
        \A i \in 0..Len(note) - 1 :
            (Trim(RootText(i)) = <<>> /\ ~AddsFixedText(note[i + 1]))
                => ~HasEntry(i)

\* a quote whose descendants hold only whitespace is dropped, next to a
\* child that is kept
C11_Witness ==
    /\ bpc = "done"
    /\ Len(note) = 2
    /\ note[1] = Quote(<<Paragraph(<<T_blank>>), PageBreak>>)
    /\ RootText(0) = <<" ">>
    /\ ~HasEntry(0)
    /\ HasEntry(1)

\* the root positions of the children whose content is not blank, in order
RECURSIVE KeptPositions(_, _)
KeptPositions(children, i) ==
    IF i >= Len(children) THEN <<>>
    ELSE (IF Trim(BriefContent(children[i + 1])) # <<>> THEN <<i>> ELSE <<>>)
         \o KeptPositions(children, i + 1)

\* the document of the example: [Text(""), Paragraph("hi"), PageBreak]
ExampleNote == <<Text(<<>>), Paragraph(<<T_hi>>), PageBreak>>

\* C12: the id of each entry is the zero-based position of its node among
\* the children of the root, not its position in the output, and the node
\* type is the type discriminator of that node; the example document gives
\* exactly [{1, paragraph, "hi"}, {2, page-break, "---"}].
C12_IdIsRootPosition ==
    bpc = "done" =>
        /\ [k \in 1..Len(briefs) |-> briefs[k].id] = KeptPositions(note, 0)
        /\ \A k \in 1..Len(briefs) :
            briefs[k].node_type = TypeTag(note[briefs[k].id + 1])
        /\ note = ExampleNote =>
            briefs = <<BriefNode(1, "paragraph", Str_hi),
                       BriefNode(2, "page-break", <<"-", "-", "-">>)>>

\* the brief of the example document: the first entry has id 1
C12_Witness ==
    /\ bpc = "done"
    /\ note = ExampleNote
    /\ Len(briefs) = 2
    /\ briefs[1].id = 1
    /\ briefs[2].id = 2

Containers ==
    {"Paragraph", "Heading", "List", "ListItem", "Quote",
     "Table", "TableRow", "TableCell"}

\* the child sequence the brief descends into: that of a code node counts
\* only when the node has no inline text
ChildrenOf(node) ==
    LET v == node.variant
    IN  IF v \in Containers \cup {"Link", "AutoLink"} THEN node.children
        ELSE IF v = "Code" /\ node.text = None /\ node.children # None
        THEN node.children[1]
        ELSE <<>>

\* the descendants of a node in depth-first pre-order
RECURSIVE PreOrder(_)
PreOrder(nodes) ==
    IF nodes = <<>> THEN <<>>
    ELSE <<Head(nodes)>> \o PreOrder(ChildrenOf(Head(nodes)))
         \o PreOrder(Tail(nodes))

RECURSIVE ContentsOf(_)
ContentsOf(msgs) ==
    IF msgs = <<>> THEN <<>> ELSE Head(msgs).content \o ContentsOf(Tail(msgs))

\* what one node of the listing adds: the text of a leaf, the marker of a
\* list item, nothing for the other inner nodes and for a page break
Piece(node) ==
    LET v == node.variant
    IN  IF v \in {"Text", "Hashtag", "Mention"} THEN node.text
        ELSE IF v \in {"AIEmbedding", "VoiceInput", "ChatMessage"}
        THEN node.content
        ELSE IF v = "ChatSession" THEN ContentsOf(node.messages)
        ELSE IF v = "Code" /\ node.text # None THEN node.text[1]
        ELSE IF v = "ListItem" THEN <<"U+2022", " ">>
        ELSE <<>>

RECURSIVE Pieces(_)
Pieces(nodes) ==
    IF nodes = <<>> THEN <<>> ELSE Piece(Head(nodes)) \o Pieces(Tail(nodes))

\* the text of the descendant leaves of a container, in document order
LeafText(node) == Pieces(PreOrder(node.children))

\* a code node with inline text and a child sequence that has text
IsCodeBoth(node) ==
    /\ node.variant = "Code" /\ node.text # None /\ node.children # None
    /\ extract_text_from_nodes(node.children[1]) # <<>>

HasCodeBoth(node) == \E k \in 1..Len(PreOrder(node.children)) :
                        IsCodeBoth(PreOrder(node.children)[k])

\* the brief entry of the top-level child i (1-based), if there is one
EntryOf(i) == {briefs[k] : k \in {j \in 1..Len(briefs) : briefs[j].id = i - 1}}

\* C18: the content of a top-level container is the concatenation, in
\* depth-first pre-order, of the text of its descendant leaves, with the
\* bullet and a space before the text of each list item below it and
\* nothing else between or around the pieces.
C18_ContainerContentIsLeafText ==
    \A i \in 1..index :
        note[i].variant \in Containers =>
            /\ \A b \in EntryOf(i) : b.content = LeafText(note[i])
            /\ EntryOf(i) = {} => Trim(LeafText(note[i])) = <<>>

\* the same for the containers without a code node that has both its
\* inline text and children
ContainerContentIsLeafTextButCodeBoth ==
    \A i \in 1..index :
        note[i].variant \in Containers /\ ~HasCodeBoth(note[i]) =>
            /\ \A b \in EntryOf(i) : b.content = LeafText(note[i])
            /\ EntryOf(i) = {} => Trim(LeafText(note[i])) = <<>>

\* containers of depth three, with list items, were briefed
ContainersBriefed ==
    /\ bpc = "done" /\ Len(briefs) = 2
    /\ note[1].variant = "Table" /\ note[2].variant = "List"
    /\ \A i \in 1..2 : ~HasCodeBoth(note[i])

\* C19: a code node adds to a brief its inline text when it has one,
\* else the text of its children, else nothing, whether it is a top-level
\* child or a descendant of a container; never the two together.
CodeText(node) ==
    IF node.text # None THEN node.text[1]
    ELSE IF node.children # None THEN extract_text_from_nodes(node.children[1])
    ELSE <<>>

C19_CodeAddsTextElseChildren ==
    \A i \in 1..index :
        LET n == note[i]
            below == IF n.variant = "Code" THEN <<>>
                     ELSE PreOrder(ChildrenOf(n))
        IN  /\ n.variant = "Code" => BriefContent(n) = CodeText(n)
            /\ \A k \in 1..Len(below) :
                  below[k].variant = "Code" =>
                      ExtractedText(below[k]) = CodeText(below[k])

\* the same for the top-level code nodes alone
TopLevelCodeAddsTextElseChildren ==
    \A i \in 1..index :
        note[i].variant = "Code" =>
            /\ BriefContent(note[i]) = CodeText(note[i])
            /\ \A b \in EntryOf(i) : b.content = CodeText(note[i])

(***************************************************************************)
(* The derived Serialize and Deserialize of Note (note.rs 1-338)           *)
(*                                                                         *)
(* A payload is modelled at the level of JSON tokens.  An object is the    *)
(* sequence of its entries in text order, duplicate keys kept, as a        *)
(* serde Deserializer visits it and a Serializer writes it.  A key, a      *)
(* type discriminator and the name of an enum variant are TLA+ strings; a  *)
(* text (a String field with free content) is a sequence of characters.    *)
(* A struct value is a record of its Rust fields; a node also has the      *)
(* field variant and its flattened BaseNodeProperties in the field base.   *)
(* A value a derived Deserialize keeps for later (the fields of a node,    *)
(* the flattened base) is read from serde's buffer Content, which differs  *)
(* from a read of the text in one case of the model: a type discriminator  *)
(* given as a number.                                                      *)
(* Outside the model: a struct without a flattened field given as an       *)
(* array, a unit enum given as a one-entry object (the code                *)
(* DeNotModelled marks both), and numbers above u32::MAX.                  *)
(***************************************************************************)

JEntries(pairs) == [k |-> "obj", e |-> pairs]
Pair(key, value) == <<key, value>>

\* Ok(value) of a deserialization (Fail(code) is its Err)
Good(v) == [ok |-> TRUE, v |-> v]

\* a field of a struct: its key in the payload, its Rust name, its type
\* (the T of an Option<T>), and its serde attributes
Field(key, field, ty) ==
    [key |-> key, field |-> field, ty |-> ty, opt |-> FALSE,
     default |-> FALSE, skip |-> FALSE]
\* Option<T>
Optional(f) == [f EXCEPT !.opt = TRUE]
\* #[serde(default)]
Default(f) == [f EXCEPT !.default = TRUE]
\* #[serde(skip_serializing_if = "Option::is_none")]
SkipIfNone(f) == [f EXCEPT !.skip = TRUE]

\* note.rs 4-9, rename_all = "camelCase"
NoteFields ==
    <<Optional(Field("noteId", "note_id", "String")),
      Field("lexicalState", "lexical_state", "LexicalState")>>

\* note.rs 12-16
LexicalStateFields == <<Field("root", "root", "RootNode")>>

\* note.rs 19-28
BaseFields ==
    <<Field("version", "version", "u32"),
      SkipIfNone(Optional(Field("direction", "direction", "TextDirection"))),
      SkipIfNone(Optional(Field("format", "format", "String"))),
      SkipIfNone(Optional(Field("indent", "indent", "u32")))>>

\* note.rs 40-47, without the flattened base; the children are read from
\* the text, those of a node from the buffered content of the node
RootFields ==
    <<Field("type", "node_type", "String"),
      Field("children", "children", "RootChildren")>>

\* note.rs 312-318
ChatSessionMessageFields ==
    <<Field("id", "id", "u32"),
      Field("sender", "sender", "MessageSender"),
      Field("content", "content", "String"),
      Field("timestamp", "timestamp", "String")>>

ChildrenField == Field("children", "children", "Nodes")

\* note.rs 95-329: the fields of each node struct in declaration order,
\* without the flattened base, which every node struct declares last
NodeFields(variant) ==
    CASE variant = "Text" ->
            <<Field("text", "text", "String"),
              Field("format", "format", "u32"),
              Default(Field("detail", "detail", "u32")),
              Default(Field("mode", "mode", "String")),
              Default(Field("style", "style", "String"))>>
      [] variant = "Paragraph" ->
            <<ChildrenField,
              Default(Field("textFormat", "text_format", "u32")),
              Default(Field("textStyle", "text_style", "String"))>>
      [] variant = "Heading" ->
            <<Field("tag", "tag", "HeadingTag"), ChildrenField>>
      [] variant = "List" ->
            <<Field("listType", "list_type", "ListType"),
              Optional(Field("start", "start", "u32")),
              ChildrenField>>
      [] variant \in {"ListItem", "Quote", "Table", "TableRow"} ->
            <<ChildrenField>>
      [] variant = "Code" ->
            <<SkipIfNone(Optional(Field("text", "text", "String"))),
              SkipIfNone(Optional(Field("language", "language", "String"))),
              SkipIfNone(Optional(ChildrenField)),
              Field("format", "format", "u32")>>
      [] variant = "Link" ->
            <<Field("url", "url", "String"),
              SkipIfNone(Optional(Field("rel", "rel", "String"))),
              SkipIfNone(Optional(Field("target", "target", "String"))),
              ChildrenField>>
      [] variant = "AutoLink" ->
            <<Field("url", "url", "String"), ChildrenField>>
      [] variant = "Hashtag" ->
            <<Field("text", "text", "String"),
              Field("format", "format", "u32")>>
      [] variant = "TableCell" ->
            <<ChildrenField,
              Field("headerState", "header_state", "u32"),
              Field("colSpan", "col_span", "u32"),
              Field("rowSpan", "row_span", "u32")>>
      [] variant = "PageBreak" -> <<>>
      [] variant = "AIEmbedding" ->
            <<Field("content", "content", "String"),
              Field("isLoading", "is_loading", "bool")>>
      [] variant = "VoiceInput" ->
            <<Field("content", "content", "String")>>
      [] variant = "ChatMessage" ->
            <<Field("sender", "sender", "MessageSender"),
              Field("content", "content", "String"),
              Field("timestamp", "timestamp", "String")>>
      [] variant = "ChatSession" ->
            <<Field("sessionId", "session_id", "String"),
              Field("messages", "messages", "Messages")>>
      [] variant = "Mention" ->
            <<Field("mentionName", "mention_name", "String"),
              Field("text", "text", "String"),
              Field("format", "format", "u32")>>

\* note.rs 52-92: the variants of LexicalNode
Variants ==
    {"Text", "Paragraph", "Heading", "List", "ListItem", "Quote", "Code",
     "Link", "AutoLink", "Hashtag", "Table", "TableRow", "TableCell",
     "PageBreak", "AIEmbedding", "VoiceInput", "ChatMessage", "ChatSession",
     "Mention"}

\* the unit enums: the name of each variant in a payload
EnumNames(ty) ==
    CASE ty = "TextDirection" ->
            ("ltr" :> "LeftToRight") @@ ("rtl" :> "RightToLeft")
      [] ty = "HeadingTag" ->
            ("h1" :> "H1") @@ ("h2" :> "H2") @@ ("h3" :> "H3")
            @@ ("h4" :> "H4") @@ ("h5" :> "H5") @@ ("h6" :> "H6")
      [] ty = "ListType" -> ("bullet" :> "Bullet") @@ ("number" :> "Number")
      [] ty = "MessageSender" ->
            ("user" :> "User") @@ ("agent" :> "Agent") @@ ("system" :> "System")

EnumTypes == {"TextDirection", "HeadingTag", "ListType", "MessageSender"}

\* Default::default() of the types that have #[serde(default)] fields
DefaultOf(ty) == IF ty = "u32" THEN 0 ELSE <<>>


RECURSIVE DeValue(_, _)
RECURSIVE VisitMap(_, _, _, _, _)

\* a value of Option<T> or of T: null is None where the field is an Option
DeField(f, v) ==
    IF f.opt /\ v.k = "null" THEN Good(None)
    ELSE LET r == DeValue(f.ty, v)
         IN  IF r.ok /\ f.opt THEN Good(Some(r.v)) ELSE r

\* the visit_map of a derived struct visitor from entry i on: a key of the
\* struct is deserialized into its field, a second occurrence of it is an
\* error; another key is ignored, or kept for the flattened field.
\* own: the fields read so far; rest: the entries left for the flattened
\* field
VisitMap(fields, entries, i, own, rest) ==
    IF i > Len(entries) THEN Good([own |-> own, rest |-> rest])
    ELSE LET key == entries[i][1]
             hit == {j \in 1..Len(fields) : fields[j].key = key}
         IN  IF hit = {}
             THEN VisitMap(fields, entries, i + 1, own,
                           Append(rest, entries[i]))
             ELSE LET f == fields[CHOOSE j \in hit : TRUE]
                  IN  IF f.field \in DOMAIN own THEN Fail("DuplicateField")
                      ELSE LET r == DeField(f, entries[i][2])
                           IN  IF ~r.ok THEN r
                               ELSE VisitMap(fields, entries, i + 1,
                                             own @@ (f.field :> r.v), rest)

\* the fields no entry gave: None for an Option, the default for a
\* #[serde(default)] field, an error for any other
FillMissing(fields, own) ==
    LET missing == {j \in 1..Len(fields) : fields[j].field \notin DOMAIN own}
    IN  IF \E j \in missing : ~fields[j].opt /\ ~fields[j].default
        THEN Fail("MissingField")
        ELSE Good(own @@ [name \in {fields[j].field : j \in missing} |->
                LET f == fields[CHOOSE j \in missing : fields[j].field = name]
                IN  IF f.opt THEN None ELSE DefaultOf(f.ty)])

\* a derived struct visitor over the entries of an object
DeStruct(fields, entries) ==
    LET r == VisitMap(fields, entries, 1, <<>>, <<>>)
    IN  IF ~r.ok THEN r
        ELSE LET filled == FillMissing(fields, r.v.own)
             IN  IF ~filled.ok THEN filled
                 ELSE Good([own |-> filled.v, rest |-> r.v.rest])

\* a struct with #[serde(flatten)] base: its own fields, then
\* BaseNodeProperties from the entries its own fields did not take
DeFlatStruct(fields, entries) ==
    LET r == DeStruct(fields, entries)
    IN  IF ~r.ok THEN r
        ELSE LET b == DeStruct(BaseFields, r.v.rest)
             IN  IF ~b.ok THEN b
                 ELSE Good(r.v.own @@ ("base" :> b.v.own))

\* the variant a type discriminator names, if any
VariantOf(tag) == {v \in Variants : TypeTag([variant |-> v]) = tag}

\* note.rs 52-92: the variants of LexicalNode in declaration order
VariantOrder ==
    <<"Text", "Paragraph", "Heading", "List", "ListItem", "Quote", "Code",
      "Link", "AutoLink", "Hashtag", "Table", "TableRow", "TableCell",
      "PageBreak", "AIEmbedding", "VoiceInput", "ChatMessage", "ChatSession",
      "Mention">>

\* the derived variant identifier of LexicalNode: a string names a
\* variant; read from buffered content, an unsigned integer is the index
\* of a variant
DeTag(t, buffered) ==
    IF t.k = "str"
    THEN IF VariantOf(t.s) = {} THEN Fail("UnknownVariant")
         ELSE Good(CHOOSE x \in VariantOf(t.s) : TRUE)
    ELSE IF buffered /\ t.k = "num" /\ t.n.kind = "PosInt"
    THEN IF t.n.v < Len(VariantOrder) THEN Good(VariantOrder[t.n.v + 1])
         ELSE Fail("InvalidValue")
    ELSE Fail("InvalidType")

\* note.rs 50-52, #[serde(tag = "type")]: the first entry "type" names the
\* variant and is read when it is met, a second one is an error; the other
\* entries are buffered and are the fields of the variant's struct.  Of an
\* array the first element is the discriminator; the rest is no map, which
\* a struct with a flattened field requires
DeNode(v, buffered) ==
    IF v.k = "arr"
    THEN IF v.a = <<>> THEN Fail("MissingField")
         ELSE IF ~DeTag(v.a[1], buffered).ok THEN DeTag(v.a[1], buffered)
         ELSE Fail("InvalidType")
    ELSE IF v.k # "obj" THEN Fail("InvalidType")
    ELSE LET tags == SelectSeq(v.e, LAMBDA e : e[1] = "type")
             content == SelectSeq(v.e, LAMBDA e : e[1] # "type")
             tag == DeTag(tags[1][2], buffered)
         IN  IF tags = <<>> THEN Fail("MissingField")
             ELSE IF ~tag.ok THEN tag
             ELSE IF Len(tags) > 1 THEN Fail("DuplicateField")
             ELSE LET r == DeFlatStruct(NodeFields(tag.v), content)
                  IN  IF ~r.ok THEN r
                      ELSE Good(r.v @@ ("variant" :> tag.v))

\* Vec<T>: the elements in order, the first error ends it
RECURSIVE DeSeq(_, _, _, _)
DeSeq(ty, items, i, acc) ==
    IF i > Len(items) THEN Good(acc)
    ELSE LET r == DeValue(ty, items[i])
         IN  IF ~r.ok THEN r ELSE DeSeq(ty, items, i + 1, Append(acc, r.v))

\* T::deserialize for the types of the note
DeValue(ty, v) ==
    CASE ty = "String" ->
            IF v.k = "str" THEN Good(v.s) ELSE Fail("InvalidType")
      [] ty = "u32" ->
            IF v.k = "num" /\ v.n.kind = "PosInt" THEN Good(v.n.v)
            ELSE IF v.k = "num" /\ v.n.kind = "NegInt"
            THEN Fail("InvalidValue")
            ELSE Fail("InvalidType")
      [] ty = "bool" ->
            IF v.k = "bool" THEN Good(v.b) ELSE Fail("InvalidType")
      [] ty \in EnumTypes ->
            IF v.k = "obj"
            THEN IF Len(v.e) # 1 THEN Fail("InvalidValue")
                 ELSE Fail("DeNotModelled")
            ELSE IF v.k # "str" THEN Fail("InvalidType")
            ELSE IF v.s \notin DOMAIN EnumNames(ty) THEN Fail("UnknownVariant")
            ELSE Good(EnumNames(ty)[v.s])
      [] ty = "Nodes" ->
            IF v.k = "arr" THEN DeSeq("Node", v.a, 1, <<>>)
            ELSE Fail("InvalidType")
      [] ty = "RootChildren" ->
            IF v.k = "arr" THEN DeSeq("RootChild", v.a, 1, <<>>)
            ELSE Fail("InvalidType")
      [] ty = "Messages" ->
            IF v.k = "arr" THEN DeSeq("ChatSessionMessage", v.a, 1, <<>>)
            ELSE Fail("InvalidType")
      [] ty = "Node" -> DeNode(v, TRUE)
      [] ty = "RootChild" -> DeNode(v, FALSE)
      [] ty = "ChatSessionMessage" ->
            IF v.k = "arr" THEN Fail("DeNotModelled")
            ELSE IF v.k # "obj" THEN Fail("InvalidType")
            ELSE LET r == DeStruct(ChatSessionMessageFields, v.e)
                 IN  IF r.ok THEN Good(r.v.own) ELSE r
      [] ty = "RootNode" ->
            IF v.k # "obj" THEN Fail("InvalidType")
            ELSE DeFlatStruct(RootFields, v.e)
      [] ty = "LexicalState" ->
            IF v.k = "arr" THEN Fail("DeNotModelled")
            ELSE IF v.k # "obj" THEN Fail("InvalidType")
            ELSE LET r == DeStruct(LexicalStateFields, v.e)
                 IN  IF r.ok THEN Good(r.v.own) ELSE r
      [] ty = "Note" ->
            IF v.k = "arr" THEN Fail("DeNotModelled")
            ELSE IF v.k # "obj" THEN Fail("InvalidType")
            ELSE LET r == DeStruct(NoteFields, v.e)
                 IN  IF r.ok THEN Good(r.v.own) ELSE r

\* serde_json::from_str::<Note>
from_str_Note(p) == DeValue("Note", p)


RECURSIVE SerValue(_, _)

\* the name of an enum variant in a payload
WireName(ty, x) == CHOOSE w \in DOMAIN EnumNames(ty) : EnumNames(ty)[w] = x

\* the entries a derived Serialize writes for the fields of a struct, in
\* declaration order: None is null, or no entry with skip_serializing_if
RECURSIVE SerFields(_, _, _)
SerFields(fields, rec, i) ==
    IF i > Len(fields) THEN <<>>
    ELSE LET f == fields[i]
             x == rec[f.field]
             entry ==
                IF ~f.opt THEN <<Pair(f.key, SerValue(f.ty, x))>>
                ELSE IF x # None THEN <<Pair(f.key, SerValue(f.ty, x[1]))>>
                ELSE IF f.skip THEN <<>>
                ELSE <<Pair(f.key, JNull)>>
         IN  entry \o SerFields(fields, rec, i + 1)

\* a struct with #[serde(flatten)] base: the entries of the base follow
\* those of the struct in the same object
SerFlatStruct(fields, rec) ==
    SerFields(fields, rec, 1) \o SerFields(BaseFields, rec.base, 1)

\* note.rs 50-52: the entry "type", then the entries of the variant's struct
SerNode(n) ==
    JEntries(<<Pair("type", JStr(TypeTag(n)))>>
             \o SerFlatStruct(NodeFields(n.variant), n))

\* T::serialize for the types of the note
SerValue(ty, x) ==
    CASE ty = "String" -> JStr(x)
      [] ty = "u32" -> JPosInt(x)
      [] ty = "bool" -> JBool(x)
      [] ty \in EnumTypes -> JStr(WireName(ty, x))
      [] ty \in {"Nodes", "RootChildren"} ->
            JArr([i \in 1..Len(x) |-> SerNode(x[i])])
      [] ty = "Messages" ->
            JArr([i \in 1..Len(x) |->
                    JEntries(SerFields(ChatSessionMessageFields, x[i], 1))])
      [] ty = "RootNode" -> JEntries(SerFlatStruct(RootFields, x))
      [] ty = "LexicalState" -> JEntries(SerFields(LexicalStateFields, x, 1))
      [] ty = "Note" -> JEntries(SerFields(NoteFields, x, 1))

\* serde_json::to_string(&note)
to_string_Note(n) == SerValue("Note", n)


(***************************************************************************)
(* The payloads and the notes of the round trip                            *)
(***************************************************************************)

\* the most top-level children of a payload built from CoreWireNodes
MaxPayloadChildren == 3

Str_l == <<"l">>
Str_n == <<"n">>
Str_t == <<"t">>
Str_u == <<"u">>

WVersion == Pair("version", JPosInt(1))
\* a base with only the required version
WBase == <<WVersion>>
\* a base with every optional field
WBaseFull ==
    <<Pair("direction", JStr("rtl")), Pair("format", JStr(Str_l)),
      Pair("indent", JPosInt(2)), WVersion>>
WChildren(c) == Pair("children", JArr(c))
WType(tag) == Pair("type", JStr(tag))

\* a node of the payload: its discriminator, its fields, its base
W(tag, fields, base) == JEntries(<<WType(tag)>> \o fields \o base)

WText(t) ==
    W("text", <<Pair("text", JStr(t)), Pair("format", JPosInt(0))>>, WBase)
WTextFull ==
    W("text", <<Pair("detail", JPosInt(1)), Pair("format", JPosInt(3)),
                Pair("mode", JStr(<<"m">>)), Pair("style", JStr(<<"s">>)),
                Pair("text", JStr(Str_hi))>>,
      <<Pair("direction", JStr("ltr")), Pair("indent", JPosInt(1)), WVersion>>)
WParagraph(c, base) == W("paragraph", <<WChildren(c)>>, base)
WQuote(c) == W("quote", <<WChildren(c)>>, WBase)
WList(c) == W("list", <<Pair("listType", JStr("bullet")), WChildren(c)>>, WBase)
WListItem(c) == W("listitem", <<WChildren(c)>>, WBase)
WCode(fields) == W("code", fields \o <<Pair("format", JPosInt(0))>>, WBase)
WLink(fields, c) ==
    W("link", <<Pair("url", JStr(Str_u))>> \o fields \o <<WChildren(c)>>, WBase)
WPageBreak == W("page-break", <<>>, WBase)
\* a node whose discriminator is none of the nineteen
WUnknown == W("bogus", <<WChildren(<<>>)>>, WBase)
WMessage(id, sender, c) ==
    JEntries(<<Pair("id", JPosInt(id)), Pair("sender", JStr(sender)),
               Pair("content", JStr(c)), Pair("timestamp", JStr(Str_t))>>)

\* a code node that carries both an inline text and children
WCodeBoth ==
    WCode(<<Pair("text", JStr(<<"c">>)), WChildren(<<WText(<<"d">>)>>)>>)

\* the nodes of every length of payload
CoreWireNodes ==
    {WText(Str_hi),
     WParagraph(<<WText(Str_hi), WPageBreak>>, WBaseFull),
     WCodeBoth,
     WList(<<WListItem(<<WText(<<"a">>)>>)>>),
     WUnknown,
     WParagraph(<<WText(<<"a">>), WQuote(<<WUnknown>>), WPageBreak>>, WBase)}

\* the nodes of the payloads of at most two children: every variant, with
\* and without its optional fields, and the ways a node can be malformed
MoreWireNodes ==
    {WTextFull, WPageBreak,
     W("page-break", <<>>, WBaseFull),
     WParagraph(<<>>, WBase),
     W("paragraph", <<WChildren(<<WTextFull>>), Pair("textFormat", JPosInt(1)),
                      Pair("textStyle", JStr(<<"s">>))>>, WBase),
     W("heading", <<Pair("tag", JStr("h2")), WChildren(<<WText(Str_hi)>>)>>, WBase),
     W("heading", <<Pair("tag", JStr("h7")), WChildren(<<>>)>>, WBase),
     W("list", <<Pair("listType", JStr("number")), Pair("start", JPosInt(1)),
                 WChildren(<<WListItem(<<>>)>>)>>, WBase),
     W("list", <<Pair("listType", JStr("number")), Pair("start", JNull),
                 WChildren(<<>>)>>, WBase),
     WList(<<WListItem(<<WUnknown>>)>>),
     WListItem(<<WText(<<"a">>)>>),
     WQuote(<<WCodeBoth, WText(<<"a">>)>>),
     WCode(<<>>),
     WCode(<<Pair("text", JStr(<<"c">>))>>),
     WCode(<<Pair("language", JStr(<<"r", "s">>)),
             WChildren(<<WText(Str_hi)>>)>>),
     WCode(<<Pair("text", JNull), Pair("children", JNull)>>),
     WCode(<<WChildren(<<WUnknown>>)>>),
     WLink(<<>>, <<WText(<<"a">>)>>),
     WLink(<<Pair("rel", JStr(<<"r">>)), Pair("target", JStr(<<"_">>))>>, <<>>),
     WLink(<<>>, <<WText(<<"a">>), WUnknown>>),
     W("autolink", <<Pair("url", JStr(Str_u)), WChildren(<<>>)>>, WBase),
     W("hashtag", <<Pair("text", JStr(<<"#", "t">>)), Pair("format", JPosInt(0))>>,
       WBase),
     W("table",
       <<WChildren(<<W("tablerow",
            <<WChildren(<<W("tablecell",
                <<WChildren(<<WText(<<"a">>)>>), Pair("headerState", JPosInt(0)),
                  Pair("colSpan", JPosInt(1)), Pair("rowSpan", JPosInt(1))>>,
                WBase)>>)>>, WBase)>>)>>, WBase),
     W("table", <<WChildren(<<W("tablerow", <<WChildren(<<WUnknown>>)>>, WBase)>>)>>,
       WBase),
     W("tablecell", <<WChildren(<<>>), Pair("headerState", JPosInt(0)),
                      Pair("rowSpan", JPosInt(1))>>, WBase),
     W("ai-embedding", <<Pair("content", JStr(<<"a", "i">>)),
                         Pair("isLoading", JBool(FALSE))>>, WBase),
     W("ai-embedding", <<Pair("content", JStr(<<>>)),
                         Pair("isLoading", JPosInt(1))>>, WBase),
     W("voice-input", <<Pair("content", JStr(<<"v">>))>>, WBase),
     W("chat-message", <<Pair("sender", JStr("agent")), Pair("content", JStr(<<"m">>)),
                         Pair("timestamp", JStr(Str_t))>>, WBase),
     W("chat-message", <<Pair("sender", JStr("robot")), Pair("content", JStr(<<"m">>)),
                         Pair("timestamp", JStr(Str_t))>>, WBase),
     W("chat-session",
       <<Pair("sessionId", JStr(<<"s">>)),
         Pair("messages", JArr(<<WMessage(1, "user", <<"p">>),
                                 WMessage(2, "system", <<>>)>>)),
         Pair("isActive", JBool(TRUE))>>, WBase),
     W("chat-session",
       <<Pair("sessionId", JStr(<<"s">>)),
         Pair("messages", JArr(<<JEntries(<<Pair("sender", JStr("user"))>>)>>))>>,
       WBase),
     W("mention", <<Pair("mentionName", JStr(<<"m">>)), Pair("text", JStr(<<"@", "m">>)),
                    Pair("format", JPosInt(0))>>, WBase),
     \* a text node with a field it does not declare
     W("text", <<Pair("text", JStr(Str_hi)), Pair("format", JPosInt(0)),
                 WChildren(<<WUnknown>>)>>, WBase),
     \* malformed: a required field missing, mistyped, twice; no version;
     \* no discriminator, two discriminators, a discriminator that is no
     \* string
     W("text", <<Pair("text", JStr(Str_hi))>>, WBase),
     W("text", <<Pair("text", JStr(Str_hi)), Pair("format", JNegInt(1))>>, WBase),
     W("text", <<Pair("text", JStr(Str_hi)), Pair("format", JStr(Str_l))>>, WBase),
     W("text", <<Pair("text", JStr(Str_hi)), Pair("format", JPosInt(0)),
                 Pair("format", JStr(Str_l))>>, WBase),
     W("text", <<Pair("text", JStr(Str_hi)), Pair("format", JPosInt(0))>>, <<>>),
     W("text", <<Pair("text", JStr(Str_hi)), Pair("format", JPosInt(0))>>,
       <<Pair("direction", JStr("up")), WVersion>>),
     W("paragraph", <<Pair("children", JNull)>>, WBase),
     JEntries(<<WChildren(<<>>), WVersion>>),
     JEntries(<<WType("quote"), WType("quote"), WChildren(<<>>), WVersion>>),
     JEntries(<<Pair("type", JPosInt(1)), WChildren(<<>>), WVersion>>),
     \* an unknown discriminator before a known one; a node given as an
     \* array; below a node, a number that is the index of no variant
     JEntries(<<WType("bogus"), WType("quote"), WChildren(<<>>), WVersion>>),
     JArr(<<>>),
     JArr(<<JStr("quote"), JArr(<<>>)>>),
     WQuote(<<JEntries(<<Pair("type", JPosInt(19)), WVersion>>)>>),
     \* below a node, a number that is the index of a variant
     WQuote(<<JEntries(<<Pair("type", JPosInt(1)), WChildren(<<>>), WVersion>>)>>)}

WRoot(c, base) == JEntries(<<WType("root"), WChildren(c)>> \o base)

\* the payload of a note: with or without noteId, a root with its children
WNote(id, c, base) ==
    JEntries(id \o <<Pair("lexicalState", JEntries(<<Pair("root", WRoot(c, base))>>))>>)

NoteIds == {<<>>, <<Pair("noteId", JNull)>>, <<Pair("noteId", JStr(Str_n))>>}

PayloadChildren ==
    UNION {[1..n -> CoreWireNodes] : n \in 0..MaxPayloadChildren}
    \cup UNION {[1..n -> CoreWireNodes \cup MoreWireNodes] : n \in 1..2}

\* the payloads given to from_str
Payloads ==
    {WNote(id, c, base) :
        id \in NoteIds, c \in PayloadChildren, base \in {WBase, WBaseFull}}
    \cup {JEntries(<<Pair("noteId", JStr(Str_n))>>),
          JEntries(<<Pair("lexicalState", JEntries(<<>>))>>),
          JEntries(<<Pair("lexicalState",
                JEntries(<<Pair("root", JEntries(<<WChildren(<<>>), WVersion>>))>>))>>),
          WNote(<<Pair("noteId", JStr(Str_n)), Pair("noteId", JStr(Str_n))>>,
                <<>>, WBase),
          WNote(<<Pair("title", JStr(Str_t))>>, <<WText(Str_hi)>>, WBase)}

\* BaseNodeProperties, TextNode and the like, built field by field
BaseProps(direction, format, indent) ==
    [version |-> 1, direction |-> direction, format |-> format, indent |-> indent]
PlainBase == BaseProps(None, None, None)
TextNode(text, base) ==
    [variant |-> "Text", text |-> text, format |-> 0, detail |-> 0,
     mode |-> <<>>, style |-> <<>>, base |-> base]
ParagraphNode(children, base) ==
    [variant |-> "Paragraph", children |-> children, text_format |-> 0,
     text_style |-> <<>>, base |-> base]
CodeNode(text, children, base) ==
    [variant |-> "Code", text |-> text, language |-> None,
     children |-> children, format |-> 0, base |-> base]
HashtagNode(text, base) ==
    [variant |-> "Hashtag", text |-> text, format |-> 1, base |-> base]
MentionNode(text, base) ==
    [variant |-> "Mention", mention_name |-> <<"m">>, text |-> text,
     format |-> 1, base |-> base]
NoteOf(id, children) ==
    [note_id |-> id,
     lexical_state |-> [root |-> [node_type |-> "root", children |-> children,
                                  base |-> PlainBase]]]

BuiltBases ==
    {PlainBase, BaseProps(Some("RightToLeft"), None, Some(1)),
     BaseProps(None, Some(Str_l), None)}

\* the notes a caller of the library builds from the pub structs
BuiltNotes ==
    {NoteOf(id, <<n>>) :
        id \in {None, Some(Str_n)},
        n \in UNION {{TextNode(Str_hi, b),
                      ParagraphNode(<<TextNode(Str_hi, PlainBase)>>, b),
                      ParagraphNode(<<TextNode(Str_hi, b)>>, PlainBase),
                      CodeNode(Some(<<"c">>), None, b),
                      HashtagNode(<<"#", "t">>, b),
                      MentionNode(<<"@", "m">>, b)} : b \in BuiltBases}}

(***************************************************************************)
(* The round trip of a note (note.rs 705-727)                              *)
(***************************************************************************)

InitSerde ==
    /\ \/ /\ spc = "read"
          /\ payload \in Payloads
          /\ doc = NoDoc
       \/ /\ spc = "write"
          /\ payload = JNull
          /\ doc \in {Good(n) : n \in BuiltNotes}
    /\ written = JNull
    /\ reparsed = NoDoc
    /\ ParseIdle
    /\ BriefIdle
    /\ PromptIdle
    /\ ChatIdle
    /\ RuntimeIdle

\* let note: Note = serde_json::from_str(&json_content)
ReadPayload ==
    /\ spc = "read"
    /\ doc' = from_str_Note(payload)
    /\ spc' = IF doc'.ok THEN "write" ELSE "done"
    /\ UNCHANGED <<payload, written, reparsed>>
    /\ UNCHANGED <<parseVars, briefVars, promptVars, chatVars, runtimeVars>>

\* let serialized = serde_json::to_string(&note)
WriteNote ==
    /\ spc = "write"
    /\ written' = to_string_Note(doc.v)
    /\ spc' = "reread"
    /\ UNCHANGED <<payload, doc, reparsed>>
    /\ UNCHANGED <<parseVars, briefVars, promptVars, chatVars, runtimeVars>>

\* let reparsed: Note = serde_json::from_str(&serialized)
RereadWritten ==
    /\ spc = "reread"
    /\ reparsed' = from_str_Note(written)
    /\ spc' = "done"
    /\ UNCHANGED <<payload, doc, written>>
    /\ UNCHANGED <<parseVars, briefVars, promptVars, chatVars, runtimeVars>>

NextSerde == ReadPayload \/ WriteNote \/ RereadWritten

SpecSerde == InitSerde /\ [][NextSerde]_vars


(***************************************************************************)
(* Claims about the serialization of a Note, checked under SpecSerde       *)
(***************************************************************************)

\* C13: deserializing the serialization of a Note gives a Note equal to the
\* original on every declared field: the note id, the root type, the
\* children in number and order, every field of every node at every depth.
C13_RoundTripIsIdentity ==
    spc = "done" /\ doc.ok => reparsed = doc

\* what holds of the code: the round trip of a note that from_str produced
\* is the identity
RoundTripOfReadNotes ==
    spc = "done" /\ doc.ok /\ payload # JNull => reparsed = doc

\* the keys of the entries of an object
Keys(obj) == {obj.e[i][1] : i \in 1..Len(obj.e)}
\* the value of the first entry with the key
ValueOf(obj, key) ==
    obj.e[CHOOSE i \in 1..Len(obj.e) :
            obj.e[i][1] = key /\ \A j \in 1..(i - 1) : obj.e[j][1] # key][2]
\* the keys of the Option fields without #[serde(default)]
OptionKeys(fields) ==
    {fields[j].key : j \in {i \in 1..Len(fields) :
                                fields[i].opt /\ ~fields[i].default}}

\* an optional field absent from the object read is absent from the object
\* written, in a node and in the nodes below it
RECURSIVE NodeAbsentStaysAbsent(_, _, _)
NodeAbsentStaysAbsent(read, wrote, buffered) ==
    LET variant == DeTag(ValueOf(read, "type"), buffered).v
        own == NodeFields(variant)
        below == \E j \in 1..Len(own) : own[j].key = "children"
    IN  /\ \A key \in OptionKeys(own) \cup OptionKeys(BaseFields) :
            key \notin Keys(read) => key \notin Keys(wrote)
        /\ (below /\ "children" \in Keys(read)
                  /\ ValueOf(read, "children").k = "arr") =>
            \A i \in 1..Len(ValueOf(read, "children").a) :
                NodeAbsentStaysAbsent(ValueOf(read, "children").a[i],
                                      ValueOf(wrote, "children").a[i], TRUE)

\* C14: an optional field with no schema default that is absent from the
\* payload a Note was deserialized from (noteId, the start of a list, the
\* direction, format and indent of a node, the rel and target of a link,
\* the text, language and children of a code node) is absent from the
\* payload the Note is serialized to.
C14_AbsentStaysAbsent ==
    spc = "done" /\ doc.ok /\ payload # JNull =>
        LET rootRead == ValueOf(ValueOf(payload, "lexicalState"), "root")
            rootWrote == ValueOf(ValueOf(written, "lexicalState"), "root")
        IN  /\ "noteId" \notin Keys(payload) => "noteId" \notin Keys(written)
            /\ \A key \in OptionKeys(BaseFields) :
                key \notin Keys(rootRead) => key \notin Keys(rootWrote)
            /\ \A i \in 1..Len(ValueOf(rootRead, "children").a) :
                NodeAbsentStaysAbsent(ValueOf(rootRead, "children").a[i],
                                      ValueOf(rootWrote, "children").a[i], FALSE)

\* what holds of the code: the fields with skip_serializing_if stay absent
SkippedKeys(fields) ==
    {fields[j].key : j \in {i \in 1..Len(fields) : fields[i].skip}}
AbsentSkippedFieldsStayAbsent ==
    spc = "done" /\ doc.ok /\ payload # JNull =>
        LET rootRead == ValueOf(ValueOf(payload, "lexicalState"), "root")
            rootWrote == ValueOf(ValueOf(written, "lexicalState"), "root")
        IN  /\ \A key \in SkippedKeys(BaseFields) :
                key \notin Keys(rootRead) => key \notin Keys(rootWrote)
            /\ \A i \in 1..Len(ValueOf(rootRead, "children").a) :
                LET read == ValueOf(rootRead, "children").a[i]
                    wrote == ValueOf(rootWrote, "children").a[i]
                    variant == CHOOSE v \in VariantOf(ValueOf(read, "type").s) :
                                    TRUE
                IN  \A key \in SkippedKeys(NodeFields(variant))
                                \cup SkippedKeys(BaseFields) :
                        key \notin Keys(read) => key \notin Keys(wrote)

\* the discriminators of the nineteen node types
KnownTypes == {TypeTag([variant |-> v]) : v \in Variants}

\* the value of a discriminator is one of the nineteen node types
IsKnownType(t) == t.k = "str" /\ t.s \in KnownTypes

\* a node of the array, or a node below one, has a discriminator that is
\* none of the nineteen types: another string, or no string at all; the
\* nodes below a node are those of the children field its struct declares
RECURSIVE UnknownTypeIn(_)
UnknownTypeIn(nodes) ==
    \E i \in 1..Len(nodes) :
        LET n == nodes[i]
        IN  /\ n.k = "obj"
            /\ Len(SelectSeq(n.e, LAMBDA e : e[1] = "type")) = 1
            /\ \/ ~IsKnownType(ValueOf(n, "type"))
               \/ LET variant == CHOOSE v \in VariantOf(ValueOf(n, "type").s) :
                                    TRUE
                      own == NodeFields(variant)
                  IN  /\ \E j \in 1..Len(own) : own[j].key = "children"
                      /\ "children" \in Keys(n)
                      /\ ValueOf(n, "children").k = "arr"
                      /\ UnknownTypeIn(ValueOf(n, "children").a)

\* the children of the root of a payload, when it has them
RootChildren(p) ==
    IF /\ p.k = "obj" /\ "lexicalState" \in Keys(p)
       /\ ValueOf(p, "lexicalState").k = "obj"
       /\ "root" \in Keys(ValueOf(p, "lexicalState"))
       /\ ValueOf(ValueOf(p, "lexicalState"), "root").k = "obj"
       /\ "children" \in Keys(ValueOf(ValueOf(p, "lexicalState"), "root"))
       /\ ValueOf(ValueOf(ValueOf(p, "lexicalState"), "root"), "children").k = "arr"
    THEN ValueOf(ValueOf(ValueOf(p, "lexicalState"), "root"), "children").a
    ELSE <<>>

\* C15: a payload in which a node, at any depth and among any valid
\* siblings, has a type discriminator outside the nineteen known ones is
\* not deserialized: from_str returns an error and no Note.
C15_UnknownTypeFailsDocument ==
    (spc # "read" /\ payload # JNull /\ UnknownTypeIn(RootChildren(payload)))
        => ~doc.ok

\* a node, or a node below one, has a discriminator that is a string
\* outside the nineteen types, or any discriminator that is no unsigned
\* integer where the node stands below another node
RECURSIVE UnknownTypeButIndexIn(_, _)
UnknownTypeButIndexIn(nodes, buffered) ==
    \E i \in 1..Len(nodes) :
        LET n == nodes[i]
            t == ValueOf(n, "type")
        IN  /\ n.k = "obj"
            /\ Len(SelectSeq(n.e, LAMBDA e : e[1] = "type")) = 1
            /\ \/ /\ ~IsKnownType(t)
                  /\ ~(buffered /\ t.k = "num" /\ t.n.kind = "PosInt")
               \/ /\ IsKnownType(t)
                  /\ LET own == NodeFields(DeTag(t, buffered).v)
                     IN  /\ \E j \in 1..Len(own) : own[j].key = "children"
                         /\ "children" \in Keys(n)
                         /\ ValueOf(n, "children").k = "arr"
                         /\ UnknownTypeButIndexIn(ValueOf(n, "children").a,
                                                  TRUE)

\* what holds of the code: every unknown discriminator fails the document
\* but an unsigned integer below a node
UnknownTypeButIndexFailsDocument ==
    (spc # "read" /\ payload # JNull
        /\ UnknownTypeButIndexIn(RootChildren(payload), FALSE))
        => ~doc.ok

\* a node below a quote has the discriminator 1 and the document is read,
\* the node as a paragraph
IndexReadAsVariant ==
    /\ spc = "done" /\ doc.ok /\ payload # JNull
    /\ \E i \in 1..Len(RootChildren(payload)) :
          /\ RootChildren(payload)[i] =
                WQuote(<<JEntries(<<Pair("type", JPosInt(1)), WChildren(<<>>),
                                    WVersion>>)>>)
          /\ doc.v.lexical_state.root.children[i].children[1].variant
                = "Paragraph"

\* an unknown node three levels down, between valid siblings
UnknownNodeThreeLevelsDown ==
    /\ spc = "done"
    /\ Len(RootChildren(payload)) = 2
    /\ RootChildren(payload)[1] = WText(Str_hi)
    /\ RootChildren(payload)[2] =
        WParagraph(<<WText(<<"a">>), WQuote(<<WUnknown>>), WPageBreak>>, WBase)
    /\ doc = Fail("UnknownVariant")

\* the nodes below a node of a Note value
NodesBelow(n) ==
    IF "children" \notin DOMAIN n THEN <<>>
    ELSE IF n.variant = "Code"
    THEN (IF n.children = None THEN <<>> ELSE n.children[1])
    ELSE n.children

\* the code nodes among the nodes and below them
RECURSIVE CodeNodesIn(_)
CodeNodesIn(nodes) ==
    UNION {(IF nodes[i].variant = "Code" THEN {nodes[i]} ELSE {})
           \cup CodeNodesIn(NodesBelow(nodes[i])) : i \in 1..Len(nodes)}

\* an Option of a sequence that is Some and not empty
Populated(opt) == opt # None /\ opt[1] # <<>>

\* C20: in a Note that deserialization accepted, no code node has both
\* its inline text and its child sequence populated.
C20_CodeIsTextOrChildren ==
    spc # "read" /\ payload # JNull /\ doc.ok =>
        \A c \in CodeNodesIn(doc.v.lexical_state.root.children) :
            ~(Populated(c.text) /\ Populated(c.children))

\* the same for the payloads whose code nodes carry at most one of the two:
\* deserialization adds neither
CodeKeepsWhatThePayloadHas ==
    spc # "read" /\ payload # JNull /\ doc.ok
    /\ ~(\E i \in 1..Len(RootChildren(payload)) :
            RootChildren(payload)[i] \in
                {WCodeBoth, WQuote(<<WCodeBoth, WText(<<"a">>)>>)})
    => \A c \in CodeNodesIn(doc.v.lexical_state.root.children) :
            ~(Populated(c.text) /\ Populated(c.children))

\* a payload with code nodes was read
CodeNodeRead ==
    /\ spc = "done" /\ payload # JNull /\ doc.ok
    /\ CodeNodesIn(doc.v.lexical_state.root.children) # {}

(***************************************************************************)
(* get_system_prompt (agent.rs 17-104)                                     *)
(*                                                                         *)
(* The prompt is the sequence of the pieces of the format string: a fixed  *)
(* piece is Lit(name), an interpolated piece is Arg(characters).           *)
(***************************************************************************)

\* note.rs 342-351: the loop of get_brief over the children from position i
RECURSIVE BriefsFrom(_, _, _)
BriefsFrom(children, i, bs) ==
    IF i >= Len(children) THEN bs
    ELSE BriefsFrom(children, i + 1,
                    collect_brief_from_node(children[i + 1], bs, i))

\* Note::get_brief
get_brief(children) == BriefsFrom(children, 0, <<>>)

\* the characters of a node type name
Spell(name) ==
    CASE name = "text" -> <<"t", "e", "x", "t">>
      [] name = "paragraph" -> <<"p", "a", "r", "a", "g", "r", "a", "p", "h">>
      [] name = "heading" -> <<"h", "e", "a", "d", "i", "n", "g">>
      [] name = "list" -> <<"l", "i", "s", "t">>
      [] name = "listitem" -> <<"l", "i", "s", "t", "i", "t", "e", "m">>
      [] name = "quote" -> <<"q", "u", "o", "t", "e">>
      [] name = "code" -> <<"c", "o", "d", "e">>
      [] name = "link" -> <<"l", "i", "n", "k">>
      [] name = "autolink" -> <<"a", "u", "t", "o", "l", "i", "n", "k">>
      [] name = "hashtag" -> <<"h", "a", "s", "h", "t", "a", "g">>
      [] name = "table" -> <<"t", "a", "b", "l", "e">>
      [] name = "tablerow" -> <<"t", "a", "b", "l", "e", "r", "o", "w">>
      [] name = "tablecell" -> <<"t", "a", "b", "l", "e", "c", "e", "l", "l">>
      [] name = "page-break" -> <<"p", "a", "g", "e", "-", "b", "r", "e", "a", "k">>
      [] name = "ai-embedding" -> <<"a", "i", "-", "e", "m", "b", "e", "d", "d", "i", "n", "g">>
      [] name = "voice-input" -> <<"v", "o", "i", "c", "e", "-", "i", "n", "p", "u", "t">>
      [] name = "chat-message" -> <<"c", "h", "a", "t", "-", "m", "e", "s", "s", "a", "g", "e">>
      [] name = "chat-session" -> <<"c", "h", "a", "t", "-", "s", "e", "s", "s", "i", "o", "n">>
      [] name = "mention" -> <<"m", "e", "n", "t", "i", "o", "n">>

DigitChar(d) ==
    CASE d = 0 -> "0" [] d = 1 -> "1" [] d = 2 -> "2" [] d = 3 -> "3"
      [] d = 4 -> "4" [] d = 5 -> "5" [] d = 6 -> "6" [] d = 7 -> "7"
      [] d = 8 -> "8" [] d = 9 -> "9"

\* Display of a usize, and itoa of serde_json: the decimal digits
RECURSIVE ToDecimal(_)
ToDecimal(n) ==
    IF n < 10 THEN <<DigitChar(n)>>
    ELSE ToDecimal(n \div 10) \o <<DigitChar(n % 10)>>

\* serde_json HEX_DIGITS
HexDigits ==
    <<"0", "1", "2", "3", "4", "5", "6", "7", "8", "9", "a", "b", "c", "d",
      "e", "f">>

\* serde_json format_escaped_str_contents: the escape of one character; a
\* control character without a short escape is written \u00XX
EscapeChar(c) ==
    CASE c = "\"" -> <<"\\", "\"">>
      [] c = "\\" -> <<"\\", "\\">>
      [] c = "\n" -> <<"\\", "n">>
      [] c = "\t" -> <<"\\", "t">>
      [] c = "\r" -> <<"\\", "r">>
      [] c = "\f" -> <<"\\", "f">>
      [] c = BackspaceChar -> <<"\\", "b">>
      [] OTHER ->
            IF IsControl(c)
            THEN LET n == (CHOOSE k \in 1..Len(ControlChars) :
                              ControlChars[k] = c) - 1
                 IN  <<"\\", "u", "0", "0", HexDigits[(n \div 16) + 1],
                       HexDigits[(n % 16) + 1]>>
            ELSE <<c>>

RECURSIVE EscapeContents(_)
EscapeContents(s) ==
    IF s = <<>> THEN <<>> ELSE EscapeChar(s[1]) \o EscapeContents(Tail(s))

\* serde_json format_escaped_str
EscapedStr(s) == <<"\"">> \o EscapeContents(s) \o <<"\"">>

Str_nodeType == <<"n", "o", "d", "e", "T", "y", "p", "e">>

\* note.rs 331-338: the compact JSON text of one BriefNode (camelCase keys)
SerBriefNode(b) ==
    <<"{">> \o Member(Str_id, ToDecimal(b.id))
    \o <<",">> \o Member(Str_nodeType, EscapedStr(Spell(b.node_type)))
    \o <<",">> \o Member(Str_content, EscapedStr(b.content))
    \o <<"}">>

\* agent.rs 19: serde_json::to_string(&brief_note) of a Vec<BriefNode>,
\* which has no failing case
to_string_briefs(bs) ==
    <<"[">> \o Join([i \in 1..Len(bs) |-> SerBriefNode(bs[i])], <<",">>)
    \o <<"]">>

\* usize subtraction: Some(a - b), or None when it goes below zero (a panic
\* of a build with overflow checks, a wrap to usize::MAX without them)
UsizeSub(a, b) == IF a >= b THEN Some(a - b) ELSE None

\* faulty variant: the subtraction without the test for zero
insert_after_Unguarded(cursor_position) == UsizeSub(cursor_position, 1)

\* agent.rs 21
insert_after(cursor_position) ==
    IF cursor_position = 0 THEN Some(0) ELSE UsizeSub(cursor_position, 1)

Lit(name) == [lit |-> name]
Arg(chars) == [arg |-> chars]

\* agent.rs 23-103: the format string, its fixed pieces named by what they
\* say and its arguments in the order of the text
FormatPrompt(brief_note_str, cursor_position, after) ==
    <<Lit("the note is"), Arg(brief_note_str),
      Lit("requesting at node"), Arg(ToDecimal(cursor_position)),
      Lit("cursor position is at node"), Arg(ToDecimal(cursor_position)),
      Lit("insert_after should be"), Arg(ToDecimal(after)),
      Lit("rules and examples")>>

\* agent.rs 17-104
get_system_prompt(c) ==
    LET brief_note == get_brief(c.note)
        brief_note_str == to_string_briefs(brief_note)
        after == insert_after(c.cursor_position)
    IN  IF after = None THEN Fail("SubtractOverflow")
        ELSE Good(FormatPrompt(brief_note_str, c.cursor_position, after[1]))

\* a cursor far beyond every note
FarCursor == 65536

\* ctx.cursor_position: every position of a note, the one past its last
\* node, and positions of two and of five digits
Cursors == 0..(MaxChildren + 1) \cup {10, FarCursor}

ChatContexts ==
    {[note |-> n, cursor_position |-> c] : n \in Notes, c \in Cursors}

InitPrompt ==
    /\ qpc = "call"
    /\ ctx \in ChatContexts
    /\ prompt = NoPrompt
    /\ ParseIdle
    /\ BriefIdle
    /\ SerdeIdle
    /\ ChatIdle
    /\ RuntimeIdle

GetSystemPrompt ==
    /\ qpc = "call"
    /\ prompt' = get_system_prompt(ctx)
    /\ qpc' = "done"
    /\ UNCHANGED ctx
    /\ UNCHANGED <<parseVars, briefVars, serdeVars, chatVars, runtimeVars>>

NextPrompt == GetSystemPrompt

SpecPrompt == InitPrompt /\ [][NextPrompt]_vars

(***************************************************************************)
(* Claims about get_system_prompt, checked under SpecPrompt                *)
(***************************************************************************)

\* the JSON value of one BriefNode
BriefValue(b) ==
    JObj((Str_id :> JPosInt(b.id))
         @@ (Str_nodeType :> JStr(Spell(b.node_type)))
         @@ (Str_content :> JStr(b.content)))

\* the JSON value a text stands for, JNull for a text that is not JSON
ValueOfText(s) == LET r == from_str(s) IN IF r.ok THEN r.v ELSE JNull

\* C16: for every cursor_position, zero and the number of top-level
\* children included, get_system_prompt succeeds; the insert_after it
\* renders is 0 for the cursor 0 and cursor_position - 1 otherwise, a value
\* that is never below zero; the prompt has cursor_position itself in its
\* two places, and the JSON text of the brief of the note, which reads back
\* as the array of the brief nodes of get_brief.
C16_PromptEmbedsBriefCursorAndInsertAfter ==
    qpc = "done" =>
        LET c == ctx.cursor_position
            expected == IF c = 0 THEN 0 ELSE c - 1
            bs == get_brief(ctx.note)
        IN  /\ prompt.ok
            /\ Len(prompt.v) = 9
            /\ expected >= 0
            /\ ValueOfText(prompt.v[8].arg) = JPosInt(expected)
            /\ ValueOfText(prompt.v[4].arg) = JPosInt(c)
            /\ ValueOfText(prompt.v[6].arg) = JPosInt(c)
            /\ ValueOfText(prompt.v[2].arg)
                 = JArr([i \in 1..Len(bs) |-> BriefValue(bs[i])])

\* the cursor is 0 and the cursor is past the last node of a note whose
\* brief is not empty, and the prompt was rendered
C16_Witness ==
    /\ qpc = "done" /\ prompt.ok
    /\ Len(ctx.note) = MaxChildren
    /\ ctx.cursor_position = Len(ctx.note)
    /\ Len(get_brief(ctx.note)) >= 2

(***************************************************************************)
(* ChatHandler::chat and the task of ChatSource::spawn                     *)
(* (agent.rs 120-153, 266-309; lib.rs 40-96)                               *)
(*                                                                         *)
(* The caller and the task meet at their await points: the send on a       *)
(* channel, which waits for room, and the recv, which waits for a message  *)
(* or for the other side to be gone.  A reply in flight carries, next to   *)
(* its text, the chat it answers and whether the strategy gave it; the     *)
(* two are history, not part of the String.  on_event and the agent        *)
(* behind it are amico_core: an environment that gives Some(text) or None, *)
(* and that may be torn down (DropSource) at any await of the task.        *)
(***************************************************************************)

\* mpsc::channel(1)
ChannelCapacity == 1

\* the most chat calls of a run
MaxCalls == 4

Str_failed_to_receive_reply ==
    <<"F", "a", "i", "l", "e", "d", " ", "t", "o", " ", "r", "e", "c", "e",
      "i", "v", "e", " ", "r", "e", "p", "l", "y">>

Str_agent_did_not_reply ==
    <<"A", "g", "e", "n", "t", " ", "d", "i", "d", " ", "n", "o", "t", " ",
      "r", "e", "p", "l", "y", " ", "t", "o", " ", "i", "n", "t", "e", "r",
      "a", "c", "t", "i", "o", "n">>

Str_reply_json ==
    <<"{">> \o Member(Str_action, Quoted(Str_reply)) \o <<",">>
    \o Member(Str_content, Quoted(Str_hi)) \o <<"}">>

\* what on_event gives for a chat: a prose reply, a reply action, a text
\* that is not an action, or nothing
StrategyOutcomes ==
    {None, Some(Str_hi), Some(Str_reply_json), Some(<<"{", "a">>)}

\* the contexts the caller passes to chat of agent.rs
HandlerContexts ==
    {[note |-> <<T_hi>>, cursor_position |-> 0],
     [note |-> <<>>, cursor_position |-> 1]}

Message(role, content) == [role |-> role, content |-> content]

\* the Chat a caller passes: one user message
UserMessages == <<Message("user", Str_hi)>>

\* Option::unwrap_or_else
UnwrapOrElse(opt, default) == IF opt = None THEN default ELSE opt[1]

SomeReply(r) == [kind |-> "Some", reply |-> r]
ChannelClosed == [kind |-> "Closed"]

\* Ok(reply) of lib.rs
OkString(text) == [tag |-> "String", text |-> text]

\* faulty variant: a closed reply channel is an error of the call
chat_result_ClosedIsError(h, received) ==
    IF received.kind = "Closed" THEN [tag |-> "Err", kind |-> "Channel"]
    ELSE IF h = "agent.rs" THEN try_from_reply(received.reply.text)
    ELSE OkString(received.reply.text)

\* agent.rs 143-151 and lib.rs 46-51: what chat returns for what recv gave
chat_result(h, received) ==
    LET text == IF received.kind = "Closed"
                THEN Str_failed_to_receive_reply
                ELSE received.reply.text
    IN  IF h = "agent.rs" THEN try_from_reply(text) ELSE OkString(text)

ResultOf(n, v) == [of |-> n, v |-> v]

InitChat ==
    /\ handler \in {"agent.rs", "lib.rs"}
    /\ hpc = "idle"
    /\ calls = 0
    /\ sent = NoChat
    /\ got = NoReply
    /\ result = NoResult
    /\ chat_ch = <<>>
    /\ reply_ch = <<>>
    /\ tpc = "recv"
    /\ held = NoReply
    /\ ParseIdle
    /\ BriefIdle
    /\ SerdeIdle
    /\ PromptIdle
    /\ RuntimeIdle

\* agent.rs 122-134: a call of chat builds its Chat, the system prompt
\* first; chat of lib.rs sends the caller's Chat as it is
ChatCall ==
    /\ hpc = "idle"
    /\ calls < MaxCalls
    /\ calls' = calls + 1
    /\ \/ /\ handler = "agent.rs"
          /\ \E c \in HandlerContexts :
                LET p == get_system_prompt(c)
                IN  IF p.ok
                    THEN /\ sent' = [session_id |-> calls + 1,
                                     messages |-> <<Message("system", p.v)>>
                                                  \o UserMessages]
                         /\ hpc' = "send"
                         /\ UNCHANGED <<got, result>>
                    ELSE /\ result' = ResultOf(calls + 1,
                                               [tag |-> "Err", kind |-> "Prompt"])
                         /\ got' = NoReply
                         /\ UNCHANGED <<sent, hpc>>
       \/ /\ handler = "lib.rs"
          /\ sent' = [session_id |-> calls + 1, messages |-> UserMessages]
          /\ hpc' = "send"
          /\ UNCHANGED <<got, result>>
    /\ UNCHANGED <<handler, chat_ch, reply_ch, tpc, held>>
    /\ UNCHANGED <<parseVars, briefVars, serdeVars, promptVars, runtimeVars>>

\* mpsc::Receiver::recv is ready when a message is in the channel, and
\* with None once the channel is empty and every sender is gone
RecvReady(ch, senders_gone) == ch # <<>> \/ senders_gone

\* agent.rs 137-140: chat_tx.send(chat).await; with the receiver gone the
\* error is logged and the call goes on
ChatSend ==
    /\ hpc \in {"send", "send_wait"}
    /\ IF tpc = "dropped"
       THEN UNCHANGED chat_ch
       ELSE /\ Len(chat_ch) < ChannelCapacity
            /\ chat_ch' = Append(chat_ch, sent)
    /\ hpc' = "lock"
    /\ UNCHANGED <<handler, calls, sent, got, result, reply_ch, tpc, held>>
    /\ UNCHANGED <<parseVars, briefVars, serdeVars, promptVars, runtimeVars>>

\* agent.rs 143: self.reply_rx.lock().await; chat takes &mut self, so no
\* other call holds the mutex and the lock is free
ChatLock ==
    /\ hpc \in {"lock", "lock_wait"}
    /\ hpc' = "recv"
    /\ UNCHANGED <<handler, calls, sent, got, result, chat_ch, reply_ch, tpc, held>>
    /\ UNCHANGED <<parseVars, briefVars, serdeVars, promptVars, runtimeVars>>

\* agent.rs 143-151: reply_rx.recv().await gives the next reply, or None
\* once the channel is empty and every sender is gone; then the call returns
ChatRecv ==
    /\ hpc \in {"recv", "recv_wait"}
    /\ RecvReady(reply_ch, tpc = "dropped")
    /\ IF reply_ch # <<>>
       THEN /\ got' = SomeReply(Head(reply_ch))
            /\ reply_ch' = Tail(reply_ch)
       ELSE /\ tpc = "dropped"
            /\ got' = ChannelClosed
            /\ UNCHANGED reply_ch
    /\ result' = ResultOf(sent.session_id, chat_result(handler, got'))
    /\ hpc' = "idle"
    /\ UNCHANGED <<handler, calls, sent, chat_ch, tpc, held>>
    /\ UNCHANGED <<parseVars, briefVars, serdeVars, promptVars, runtimeVars>>

\* the caller drops the handler: chat_tx and reply_rx are gone, the replies
\* in the reply channel with them
DropHandler ==
    /\ hpc = "idle"
    /\ tpc # "idle"
    /\ hpc' = "dropped"
    /\ reply_ch' = <<>>
    /\ UNCHANGED <<handler, calls, sent, got, result, chat_ch, tpc, held>>
    /\ UNCHANGED <<parseVars, briefVars, serdeVars, promptVars, runtimeVars>>

\* agent.rs 291: chat_rx.recv().await gives the next chat, or None once the
\* channel is empty and the handler is gone; then the task returns Ok(())
TaskRecv ==
    /\ tpc = "recv"
    /\ RecvReady(chat_ch, hpc = "dropped")
    /\ IF chat_ch # <<>>
       THEN /\ held' = Head(chat_ch)
            /\ chat_ch' = Tail(chat_ch)
            /\ tpc' = "event"
       ELSE /\ hpc = "dropped"
            /\ tpc' = "ended"
            /\ UNCHANGED <<held, chat_ch>>
    /\ UNCHANGED <<handler, hpc, calls, sent, got, result, reply_ch>>
    /\ UNCHANGED <<parseVars, briefVars, serdeVars, promptVars, runtimeVars>>

\* agent.rs 292-299: on_event(event).await, and the text for no reply
TaskOnEvent ==
    /\ tpc = "event"
    /\ \E o \in StrategyOutcomes :
          held' = [text |-> UnwrapOrElse(o, Str_agent_did_not_reply),
                   chat |-> held.session_id,
                   origin |-> IF o = None THEN "none" ELSE "strategy"]
    /\ tpc' = "send"
    /\ UNCHANGED <<handler, hpc, calls, sent, got, result, chat_ch, reply_ch>>
    /\ UNCHANGED <<parseVars, briefVars, serdeVars, promptVars, runtimeVars>>

\* agent.rs 301-303: reply_tx.send(reply).await; with the receiver gone the
\* error is logged and the loop goes on
TaskSend ==
    /\ tpc = "send"
    /\ IF hpc = "dropped"
       THEN UNCHANGED reply_ch
       ELSE /\ Len(reply_ch) < ChannelCapacity
            /\ reply_ch' = Append(reply_ch, held)
    /\ held' = NoReply
    /\ tpc' = "recv"
    /\ UNCHANGED <<handler, hpc, calls, sent, got, result, chat_ch>>
    /\ UNCHANGED <<parseVars, briefVars, serdeVars, promptVars, runtimeVars>>

\* the agent is torn down: the ChatSource and its task are dropped at an
\* await of the task, chat_rx and every reply_tx with them; the replies
\* already in the reply channel stay
DropSource ==
    /\ tpc \in {"recv", "event", "send"}
    /\ tpc' = "dropped"
    /\ held' = NoReply
    /\ chat_ch' = <<>>
    /\ UNCHANGED <<handler, hpc, calls, sent, got, result, reply_ch>>
    /\ UNCHANGED <<parseVars, briefVars, serdeVars, promptVars, runtimeVars>>

NextChat ==
    \/ ChatCall \/ ChatSend \/ ChatLock \/ ChatRecv \/ DropHandler
    \/ TaskRecv \/ TaskOnEvent \/ TaskSend \/ DropSource

SpecChat == InitChat /\ [][NextChat]_vars

\* a poll of the future of chat returns Pending at one of its three awaits
\* (agent.rs 137 and 143): at send when the chat channel is full, at recv
\* when the reply channel is empty and not closed, and, polled by a tokio
\* task (agent.rs 8-13), at any of the three when the cooperative budget of
\* the task is used up: Sender::send, Mutex::lock and Receiver::recv each
\* take a unit of it before they look at the channel.  budget_left is
\* whether the polling task has a unit left; it always has one where no
\* budget is kept (no tokio runtime, as on wasm)
ChatPark ==
    /\ \E budget_left \in BOOLEAN :
          \/ /\ hpc = "send"
             /\ ~budget_left \/ (tpc # "dropped" /\ Len(chat_ch) >= ChannelCapacity)
             /\ hpc' = "send_wait"
          \/ /\ hpc = "lock"
             /\ ~budget_left
             /\ hpc' = "lock_wait"
          \/ /\ hpc = "recv"
             /\ ~budget_left \/ ~RecvReady(reply_ch, tpc = "dropped")
             /\ hpc' = "recv_wait"
    /\ UNCHANGED <<handler, calls, sent, got, result, chat_ch, reply_ch, tpc, held>>
    /\ UNCHANGED <<parseVars, briefVars, serdeVars, promptVars, runtimeVars>>

\* the caller drops the future of chat (a timeout, a select), which it can
\* do only while the future is pending, woken or not: the call never
\* returns; a chat already sent stays sent, a pending send sends nothing,
\* and recv, which is cancel safe, loses no reply
AbandonCall ==
    /\ hpc \in {"send_wait", "lock_wait", "recv_wait"}
    /\ hpc' = "idle"
    /\ UNCHANGED <<handler, calls, sent, got, result, chat_ch, reply_ch, tpc, held>>
    /\ UNCHANGED <<parseVars, briefVars, serdeVars, promptVars, runtimeVars>>

NextCancel == NextChat \/ ChatPark \/ AbandonCall

\* the chat channels with callers that may abandon a call
SpecCancel == InitChat /\ [][NextCancel]_vars

\* the scheduler runs every task that can take a step: a send with room,
\* a lock of the free mutex, a recv with a message or a closed channel (a
\* future that is pending for the budget alone is woken and polled again
\* with a new budget); on_event returns.  Nothing
\* makes a caller call, abandon a call or drop the handler, nor the agent
\* go away.
\* the step of ChatRecv as the caller's position and what recv gave
Receives ==
    /\ hpc \in {"recv", "recv_wait"}
    /\ RecvReady(reply_ch, tpc = "dropped")
    /\ got' = IF reply_ch # <<>> THEN SomeReply(Head(reply_ch))
              ELSE ChannelClosed
    /\ hpc' = "idle"

Fairness ==
    /\ WF_vars(ChatSend) /\ WF_vars(ChatLock) /\ WF_hpc(Receives)
    /\ WF_vars(TaskRecv) /\ WF_vars(TaskOnEvent) /\ WF_vars(TaskSend)

FairChat == SpecChat /\ Fairness

FairCancel == SpecCancel /\ Fairness

(***************************************************************************)
(* Claims about the chat channels, checked under SpecChat                  *)
(***************************************************************************)

\* the degraded textual reply as the caller sees it: the Reply action of
\* agent.rs, the String of lib.rs
Degraded(text) ==
    IF handler = "agent.rs" THEN ReplyFrom(text) ELSE OkString(text)

\* C17: a failure of the channels is never an error of chat.  A call that
\* found the reply channel closed returns the reply "Failed to receive
\* reply"; for a chat the strategy gave no reply to, the task sends the
\* reply "Agent did not reply to interaction", and the call that receives
\* it returns it as a reply.
C17_ChannelFailureIsDegradedReply ==
    /\ tpc = "send" /\ held.origin = "none"
         => held.text = Str_agent_did_not_reply
    /\ result.of > 0 /\ got.kind = "Closed"
         => result.v = Degraded(Str_failed_to_receive_reply)
    /\ result.of > 0 /\ got.kind = "Some" /\ got.reply.origin = "none"
         => /\ got.reply.chat = result.of
            /\ result.v = Degraded(Str_agent_did_not_reply)

\* a second call found the reply channel closed, after a first call that
\* sent its chat and returned
C17_Witness ==
    /\ result.of = MaxCalls /\ got.kind = "Closed"
    /\ handler = "agent.rs"

\* the other case of C17: a call received the reply the task sent for a
\* chat the strategy gave no reply to
StrategyGaveNoReply ==
    result.of > 0 /\ got.kind = "Some" /\ got.reply.origin = "none"

(***************************************************************************)
(* Claims about abandoned calls, checked under SpecCancel and FairCancel   *)
(***************************************************************************)

\* C22: in every sequence of chat calls, calls abandoned between the send
\* of their chat and the receipt of its reply included, the reply a call
\* returns is the one the event source produced for the chat of that call.
C22_ReplyIsForOwnChat ==
    result.of > 0 /\ got.kind = "Some" => got.reply.chat = result.of

\* the part of C22 about the event source: the replies leave in the order
\* of their chats, one for each chat: a reply in the channel answers an
\* earlier chat than the one the task works on and than the ones that wait
RepliesFollowChats ==
    \A i \in 1..Len(reply_ch) :
        /\ tpc = "event" => reply_ch[i].chat < held.session_id
        /\ tpc = "send" => reply_ch[i].chat < held.chat
        /\ \A j \in 1..Len(chat_ch) : reply_ch[i].chat < chat_ch[j].session_id

Waiting(n) ==
    /\ hpc \in {"send", "send_wait", "lock", "lock_wait", "recv", "recv_wait"}
    /\ sent.session_id = n

\* C23: under fair scheduling no call of chat waits forever: each one
\* returns (or is abandoned by its caller), whatever the number of calls
\* before it and whatever became of them, also when the task of the event
\* source is gone or the strategy gave no reply.
C23_EveryCallReturns == \A n \in 1..MaxCalls : Waiting(n) ~> ~Waiting(n)

\* the last call returned after two calls that were abandoned with their
\* chat sent: it received the reply to the chat two calls back
ReturnedAfterAbandonedCalls ==
    /\ hpc = "idle" /\ result.of = MaxCalls
    /\ got.kind = "Some" /\ got.reply.chat = MaxCalls - 2

\* a call returned although the task of the event source was gone
ReturnedWithoutTask ==
    /\ hpc = "idle" /\ result.of > 0 /\ got.kind = "Closed"

\* the deadlock on the two channels: the caller waits for room in the chat
\* channel and the task for room in the reply channel
ChannelsDeadlocked ==
    /\ hpc \in {"send", "send_wait"} /\ Len(chat_ch) = ChannelCapacity
    /\ tpc = "send" /\ Len(reply_ch) = ChannelCapacity

\* the part of C23 about the channels: the handler and the task never
\* deadlock on them
NoChannelDeadlock == ~ChannelsDeadlocked

\* a call was abandoned with its chat sent and a reply left in the reply
\* channel, where the future is pending for the budget alone
AbandonedWithReplyReady ==
    /\ hpc \in {"lock_wait", "recv_wait"} /\ reply_ch # <<>>

(***************************************************************************)
(* AgentWasmRuntime (lib.rs 120-187)                                       *)
(*                                                                         *)
(* The runtime owns the ChatHandler of lib.rs behind a mutex; new() gives  *)
(* the ChatSource to the agent, whose task waits for chats from then on.   *)
(* send_chat is an exported async fn: each caller is a promise that runs   *)
(* to its end, and several can be pending at once.                         *)
(***************************************************************************)

\* the callers that may have a send_chat pending at the same time
MaxCallers == 2

Callers == 1..MaxCallers

Str_not_running ==
    <<"A", "g", "e", "n", "t", " ", "i", "s", " ", "n", "o", "t", " ", "r",
      "u", "n", "n", "i", "n", "g", ".", " ", "C", "a", "l", "l", " ", "s",
      "t", "a", "r", "t", "(", ")", " ", "f", "i", "r", "s", "t", ".">>

\* Err(JsValue::from_str(text))
JsErr(text) == [tag |-> "JsErr", text |-> text]

NoReturn == [tag |-> "None"]

AtRest == [pc |-> "idle", n |-> 0]

\* lib.rs 129-140: AgentWasmRuntime::new
NewRuntime == [agent |-> Some("Agent"), running |-> FALSE]

\* faulty variant: running is set and the agent is spawned without being
\* taken out of its slot
start_AgentStays(rt) ==
    IF rt.running THEN [rt |-> rt, spawned |-> FALSE]
    ELSE IF rt.agent # None
    THEN [rt |-> [agent |-> rt.agent, running |-> TRUE], spawned |-> TRUE]
    ELSE [rt |-> rt, spawned |-> FALSE]

\* lib.rs 142-158: the fields after start, and whether agent.run() was
\* spawned
start(rt) ==
    IF rt.running THEN [rt |-> rt, spawned |-> FALSE]
    ELSE IF rt.agent # None
    THEN [rt |-> [agent |-> None, running |-> TRUE], spawned |-> TRUE]
    ELSE [rt |-> rt, spawned |-> FALSE]

\* lib.rs 184-187
is_running(rt) == rt.running

\* faulty variant: send_chat goes on whatever running is
MayChat_Always(rt) == TRUE

\* lib.rs 161-166: send_chat goes on only when the runtime is running
MayChat(rt) == rt.running

\* faulty variant: the lock is given while another caller holds it
MutexFree_Always(o) == TRUE

\* tokio::sync::Mutex: lock().await is given when no one holds the lock
MutexFree(o) == o = 0

\* Err(e) of the chat of lib.rs: an anyhow::Error with the text of
\* e.to_string()
ErrString(text) == [tag |-> "Err", text |-> text]

\* the fixed piece of format!("Chat error: {}", e)
Str_chat_error ==
    <<"C", "h", "a", "t", " ", "e", "r", "r", "o", "r", ":", " ">>

\* lib.rs 178-181: the match on the result of handler.chat
send_chat_return(v) ==
    IF v.tag = "String" THEN v ELSE JsErr(Str_chat_error \o v.text)

InitRuntime ==
    /\ runtime = NewRuntime
    /\ launches = 0
    /\ cpc = [c \in Callers |-> AtRest]
    /\ owner = 0
    /\ ret = [c \in Callers |-> NoReturn]
    /\ seen = <<>>
    /\ handler = "lib.rs"
    /\ hpc = "idle"
    /\ calls = 0
    /\ sent = NoChat
    /\ got = NoReply
    /\ result = NoResult
    /\ chat_ch = <<>>
    /\ reply_ch = <<>>
    /\ tpc = "recv"
    /\ held = NoReply
    /\ ParseIdle
    /\ BriefIdle
    /\ SerdeIdle
    /\ PromptIdle

\* lib.rs 142-158
Start ==
    /\ runtime' = start(runtime).rt
    /\ launches' = launches + (IF start(runtime).spawned THEN 1 ELSE 0)
    /\ UNCHANGED <<cpc, owner, ret, seen>>
    /\ UNCHANGED <<parseVars, briefVars, serdeVars, promptVars, chatVars>>

\* lib.rs 184-187
IsRunning ==
    /\ seen' = <<is_running(runtime)>>
    /\ UNCHANGED <<runtime, launches, cpc, owner, ret>>
    /\ UNCHANGED <<parseVars, briefVars, serdeVars, promptVars, chatVars>>

\* lib.rs 160-175: a call of send_chat, up to its wait for the lock
SendChat(c) ==
    /\ cpc[c].pc = "idle"
    /\ calls < MaxCalls
    /\ calls' = calls + 1
    /\ IF MayChat(runtime)
       THEN /\ cpc' = [cpc EXCEPT ![c] = [pc |-> "lock", n |-> calls + 1]]
            /\ UNCHANGED ret
       ELSE /\ ret' = [ret EXCEPT ![c] = JsErr(Str_not_running)]
            /\ UNCHANGED cpc
    /\ UNCHANGED <<runtime, launches, owner, seen>>
    /\ UNCHANGED <<handler, hpc, sent, got, result, chat_ch, reply_ch, tpc, held>>
    /\ UNCHANGED <<parseVars, briefVars, serdeVars, promptVars>>

\* lib.rs 177-178: the lock is given and handler.chat(chat) starts
LockHandler(c) ==
    /\ cpc[c].pc = "lock"
    /\ MutexFree(owner)
    /\ owner' = c
    /\ cpc' = [cpc EXCEPT ![c].pc = "chat"]
    /\ sent' = [session_id |-> cpc[c].n, messages |-> UserMessages]
    /\ hpc' = "send"
    /\ UNCHANGED <<runtime, launches, ret, seen>>
    /\ UNCHANGED <<handler, calls, got, result, chat_ch, reply_ch, tpc, held>>
    /\ UNCHANGED <<parseVars, briefVars, serdeVars, promptVars>>

\* lib.rs 178-182: handler.chat returned to the caller that holds the
\* lock; send_chat returns and the guard is dropped
SendChatReturn(c) ==
    /\ cpc[c].pc = "chat"
    /\ owner = c
    /\ hpc = "idle"
    /\ result.of = cpc[c].n
    /\ ret' = [ret EXCEPT ![c] = send_chat_return(result.v)]
    /\ owner' = 0
    /\ cpc' = [cpc EXCEPT ![c] = AtRest]
    /\ UNCHANGED <<runtime, launches, seen>>
    /\ UNCHANGED <<parseVars, briefVars, serdeVars, promptVars, chatVars>>

NextRuntime ==
    \/ Start \/ IsRunning
    \/ \E c \in Callers : SendChat(c)
    \/ \E c \in Callers : LockHandler(c)
    \/ \E c \in Callers : SendChatReturn(c)
    \/ ChatSend \/ ChatLock \/ ChatRecv
    \/ TaskRecv \/ TaskOnEvent \/ TaskSend \/ DropSource

SpecRuntime == InitRuntime /\ [][NextRuntime]_vars

(***************************************************************************)
(* Claims about the runtime, checked under SpecRuntime                     *)
(***************************************************************************)

\* the chat turns under way: a chat sent whose reply was not yet received
Outstanding ==
    Len(chat_ch) + Len(reply_ch) + (IF tpc \in {"event", "send"} THEN 1 ELSE 0)

\* the callers inside handler.chat
Chatting == {c \in Callers : cpc[c].pc = "chat"}

\* C21: between the handler and its event source at most one chat turn is
\* under way: a chat is sent only when no earlier chat waits for its reply,
\* also with several send_chat calls pending, of which one at a time is
\* inside handler.chat; so each channel holds at most one message.
C21_OneTurnOutstanding ==
    /\ Outstanding <= 1
    /\ Len(chat_ch) <= 1 /\ Len(reply_ch) <= 1
    /\ Cardinality(Chatting) <= 1
    /\ hpc = "send" => Outstanding = 0
    /\ \A c \in Chatting : owner = c

\* a second call waits for the lock while the first waits for its reply,
\* which is in the reply channel
C21_Witness ==
    /\ \E c, d \in Callers : cpc[c].pc = "chat" /\ cpc[d].pc = "lock"
    /\ hpc = "recv"
    /\ reply_ch # <<>>

\* a chat of a send_chat call is on its way or was answered
ChatWasSent ==
    \/ chat_ch # <<>> \/ reply_ch # <<>> \/ tpc \in {"event", "send"}
    \/ hpc # "idle" \/ result.of > 0
    \/ \E c \in Callers : cpc[c].pc # "idle"

\* a step that is a call of send_chat on a runtime that is not running
CallWhileStopped == calls' = calls + 1 /\ ~runtime.running

\* C24: send_chat on a runtime that is not running returns the error
\* "Agent is not running. Call start() first.", sends no chat and leaves
\* the runtime as it was; when a chat of send_chat was sent, start was
\* called before.
C24_NotRunningIsErrorWithoutChat ==
    [][/\ CallWhileStopped =>
            /\ \E c \in Callers :
                  ret' = [ret EXCEPT ![c] = JsErr(Str_not_running)]
            /\ UNCHANGED <<runtime, launches, cpc, owner, seen>>
            /\ UNCHANGED <<hpc, sent, got, result, chat_ch, reply_ch, tpc, held>>
       /\ ChatWasSent' => runtime'.running /\ launches' = 1]_vars

\* a call was refused before start, and a later call sent its chat
C24_Witness ==
    /\ \E c \in Callers : ret[c] = JsErr(Str_not_running)
    /\ chat_ch # <<>>

\* what C25 says of one state: running exactly when the agent slot is
\* empty, the agent launched once when running and never before, a start
\* on a running runtime without effect, and is_running true only when
\* running
RuntimeConsistent ==
    /\ runtime.running <=> runtime.agent = None
    /\ launches = (IF runtime.running THEN 1 ELSE 0)
    /\ runtime.running => start(runtime) = [rt |-> runtime, spawned |-> FALSE]
    /\ ~runtime.running => /\ start(runtime).rt.running
                           /\ start(runtime).spawned
    /\ seen = <<TRUE>> => runtime.running

\* C25: is_running is false after new, true from the first start on and
\* never false again; agent.run() is spawned at most once and a later
\* start changes nothing; the runtime is running exactly when its agent
\* slot is empty.
C25_RunningOnceAndForAll ==
    /\ RuntimeConsistent /\ ~is_running(runtime)
    /\ [][/\ RuntimeConsistent'
          /\ runtime.running => runtime'.running
          /\ launches' >= launches /\ launches' <= 1
          /\ seen' # seen => seen' = <<runtime.running>>]_vars

\* start was called, is_running returned true and a chat was answered
C25_Witness ==
    /\ runtime.running /\ launches = 1 /\ seen = <<TRUE>>
    /\ \E c \in Callers : ret[c].tag = "String"

(***************************************************************************)
(* The whole model: a call of try_from_reply, of get_brief or of           *)
(* get_system_prompt, a round trip of a note, a run of the chat channels   *)
(* with calls that may be abandoned, or a run of the runtime               *)
(***************************************************************************)

Init ==
    InitParse \/ InitBrief \/ InitSerde \/ InitPrompt \/ InitChat \/ InitRuntime

Next ==
    \/ NextParse \/ NextBrief \/ NextSerde \/ NextPrompt
    \/ NextCancel \/ NextRuntime

Spec == Init /\ [][Next]_vars

====
